---- MODULE Spec2Model ----
(***************************************************************************)
(* The decision engine of arcjet (src/arcjet/index.ts): the block cache,   *)
(* the rule constructors' rule objects, the priority sort of rootRules and *)
(* withRule, and protect() split at its suspension points (the awaits of   *)
(* generateFingerprint, of each local rule's protect and of client.decide).*)
(***************************************************************************)
EXTENDS Integers, Sequences, FiniteSets, TLC

VARIABLES
    views,      \* engine views: <<[eng, rules, declared]>>; views[e] for the root of engine e
                \* (declared: the rules in the order they were handed over)
    options,    \* the options each engine was built from: [rules, characteristics]
    ruleChars,  \* the characteristics field of every rule object (mutable, shared)
    cache,      \* blockCache of each engine: [expires, data], two Maps
    now,        \* nowInSeconds()
    requests,   \* the requests the adapter may hand to protect
    pc,         \* where each protect call stands
    frame,      \* the local variables of each protect call
    calls,      \* per call: the validate/protect/log/cache calls made, in order
    rpc,        \* per call: the client.report / client.decide calls made, in order
    written,    \* per engine and fingerprint: the path of the blockCache.set of its entry
    ret         \* the last direct call of a constructor or a Cache method, and its result

vars == <<views, options, ruleChars, cache, now, requests, pc, frame, calls, rpc,
          written, ret>>

-----------------------------------------------------------------------------
\* Bounds of the model.

\* The clock runs from 0 to MaxNow.
MaxNow == 1
\* At most MaxViews engine views exist (roots and withRule views).
MaxViews == 2
\* client.decide answers with a ttl in 0..MaxRemoteTtl.
MaxRemoteTtl == 1
\* A chain of withRule calls makes at most MaxChain views (the root included).
MaxChain == 3

-----------------------------------------------------------------------------
\* Program constants.

\* rules.length > 10
MaxRules == 10
\* ttl of a bot DENY
BotDenyTtl == 60

Priority ==
    [SensitiveInfo |-> 1, Shield |-> 2, RateLimit |-> 3,
     BotDetection |-> 4, EmailValidation |-> 5]

Fingerprints == {"f1", "f2"}

\* rule.characteristics === undefined
UndefinedChars == <<"<undefined>">>

-----------------------------------------------------------------------------
\* Reasons, rule results, decisions.

Reason(type, rule, message) == [type |-> type, rule |-> rule, message |-> message]

\* undefined (no reason)
NoReason == Reason("<undefined>", 0, "")

\* new ArcjetReason()
GenericReason == Reason("GENERIC", 0, "")

\* new ArcjetErrorReason(err)
ArcjetErrorReason(message) == Reason("ERROR", 0, message)

ArcjetRuleResult(ttl, state, conclusion, reason) ==
    [ttl |-> ttl, state |-> state, conclusion |-> conclusion, reason |-> reason]

Decision(conclusion, ttl, reason, results) ==
    [conclusion |-> conclusion, ttl |-> ttl, reason |-> reason, results |-> results]

\* no decision (a call that has not returned)
NoDecision == Decision("<none>", 0, NoReason, <<>>)

ArcjetDenyDecision(ttl, reason, results) == Decision("DENY", ttl, reason, results)

ArcjetErrorDecision(ttl, reason, results) == Decision("ERROR", ttl, reason, results)

isDeniedOrChallenged(r) == r.conclusion \in {"DENY", "CHALLENGE"}

\* ArcjetRuleResult.isDenied / ArcjetDecision.isDenied
isDenied(r) == r.conclusion = "DENY"

-----------------------------------------------------------------------------
\* The cache: two Maps, expires and data.

EmptyMap == [k \in {} |-> 0]

MapSet(m, key, value) == [k \in DOMAIN m \cup {key} |-> IF k = key THEN value ELSE m[k]]

MapDelete(m, key) == [k \in DOMAIN m \ {key} |-> m[k]]

\* new Cache()
NewCache == [expires |-> EmptyMap, data |-> EmptyMap]

CacheTtlFlipped(c, key, t) ==
    LET expiresAt == IF key \in DOMAIN c.expires THEN c.expires[key] ELSE t
    IN  t - expiresAt

\* Cache.ttl at clock value t
CacheTtl(c, key, t) ==
    LET expiresAt == IF key \in DOMAIN c.expires THEN c.expires[key] ELSE t
    IN  expiresAt - t

CacheGetInclusive(c, key, t) ==
    IF CacheTtl(c, key, t) >= 0 /\ key \in DOMAIN c.data THEN c.data[key] ELSE NoReason

\* what Cache.get returns at clock value t
CacheGet(c, key, t) ==
    IF CacheTtl(c, key, t) > 0 /\ key \in DOMAIN c.data THEN c.data[key] ELSE NoReason

CacheAfterGetKeeps(c, key, t) == c

CacheAfterGetEvicts(c, key, t) ==
    [expires |-> MapDelete(c.expires, key), data |-> MapDelete(c.data, key)]

\* the cache after Cache.get at clock value t
CacheAfterGet(c, key, t) ==
    IF CacheTtl(c, key, t) > 0
    THEN c
    ELSE [expires |-> MapDelete(c.expires, key), data |-> MapDelete(c.data, key)]

CacheSetKeepsLater(c, key, value, expiresAt) ==
    IF key \in DOMAIN c.expires /\ c.expires[key] > expiresAt
    THEN c
    ELSE [expires |-> MapSet(c.expires, key, expiresAt), data |-> MapSet(c.data, key, value)]

\* Cache.set
CacheSet(c, key, value, expiresAt) ==
    [expires |-> MapSet(c.expires, key, expiresAt), data |-> MapSet(c.data, key, value)]

-----------------------------------------------------------------------------
\* Rule objects, as the constructors build them from one option object.

\* opt.mode === "LIVE" ? "LIVE" : "DRY_RUN"
ModeOf(mode) == IF mode = "LIVE" THEN "LIVE" ELSE "DRY_RUN"

RuleRecord(type, priority, mode, characteristics, hasValidate, hasProtect) ==
    [type |-> type, priority |-> priority, mode |-> ModeOf(mode),
     characteristics |-> characteristics,
     hasValidate |-> hasValidate, hasProtect |-> hasProtect]

tokenBucket(mode, characteristics) ==
    RuleRecord("RATE_LIMIT", Priority.RateLimit, mode, characteristics, FALSE, FALSE)

fixedWindow(mode, characteristics) ==
    RuleRecord("RATE_LIMIT", Priority.RateLimit, mode, characteristics, FALSE, FALSE)

slidingWindow(mode, characteristics) ==
    RuleRecord("RATE_LIMIT", Priority.RateLimit, mode, characteristics, FALSE, FALSE)

sensitiveInfo(mode) ==
    RuleRecord("SENSITIVE_INFO", Priority.SensitiveInfo, mode, UndefinedChars, TRUE, TRUE)

validateEmail(mode) ==
    RuleRecord("EMAIL", Priority.EmailValidation, mode, UndefinedChars, TRUE, TRUE)

detectBot(mode) ==
    RuleRecord("BOT", Priority.BotDetection, mode, UndefinedChars, TRUE, TRUE)

shield(mode) ==
    RuleRecord("SHIELD", Priority.Shield, mode, UndefinedChars, FALSE, FALSE)

\* The rule objects of the model, by identity.
CoreIds == 1 .. 7

\* the rules of one shield(opt1, ..., optn) call
PadIds == 8 .. (8 + MaxRules)

\* sensitiveInfo({mode: "DRY_RUN"})
DryRunSensitiveInfo == 9 + MaxRules

\* detectBot({mode: "DRY_RUN"})
DryRunDetectBot == 10 + MaxRules

RuleIds == CoreIds \cup PadIds \cup {DryRunSensitiveInfo, DryRunDetectBot}

RuleObj(id) ==
    CASE id = 1 -> sensitiveInfo("LIVE")
      [] id = 2 -> shield("LIVE")
      [] id = 3 -> fixedWindow("LIVE", UndefinedChars)
      [] id = 4 -> detectBot("LIVE")
      [] id = 5 -> validateEmail("LIVE")
      [] id = 6 -> validateEmail("DRY_RUN")
      [] id = 7 -> slidingWindow("live", <<"userId">>)
      [] id = DryRunSensitiveInfo -> sensitiveInfo("DRY_RUN")
      [] id = DryRunDetectBot -> detectBot("DRY_RUN")
      [] OTHER  -> shield("")

\* isRateLimitRule (protocol/convert)
isRateLimitRule(rule) == rule.type = "RATE_LIMIT"

isLocalRule(rule) == rule.hasValidate /\ rule.hasProtect

LocalIds == {id \in RuleIds : isLocalRule(RuleObj(id))}

-----------------------------------------------------------------------------
\* rules.flat(1) and the sort by priority (Array.prototype.sort is stable).

RECURSIVE Flat(_)
Flat(prims) == IF prims = <<>> THEN <<>> ELSE Head(prims) \o Flat(Tail(prims))

RECURSIVE InsertByPriority(_, _)

InsertBeforeTies(sorted, id) ==
    IF sorted = <<>> THEN <<id>>
    ELSE IF RuleObj(Head(sorted)).priority - RuleObj(id).priority >= 0
         THEN <<id>> \o sorted
         ELSE <<Head(sorted)>> \o InsertByPriority(Tail(sorted), id)

\* the insertion of one rule behind every rule of lower or equal priority
InsertByPriority(sorted, id) ==
    IF sorted = <<>> THEN <<id>>
    ELSE IF RuleObj(Head(sorted)).priority - RuleObj(id).priority > 0
         THEN <<id>> \o sorted
         ELSE <<Head(sorted)>> \o InsertByPriority(Tail(sorted), id)

RECURSIVE SortFrom(_, _)
SortFrom(sorted, rest) ==
    IF rest = <<>> THEN sorted
    ELSE SortFrom(InsertByPriority(sorted, Head(rest)), Tail(rest))

SortByPriorityNone(ids) == ids

\* .sort((a, b) => a.priority - b.priority)
SortByPriority(ids) == SortFrom(<<>>, ids)

\* rootRules
RootRules(prims) == SortByPriority(Flat(prims))

WithRuleRulesAppended(baseRules, rule) == baseRules \o rule

\* withRule: [...baseRules, ...rule].sort(...)
WithRuleRules(baseRules, rule) == SortByPriority(baseRules \o rule)

-----------------------------------------------------------------------------
\* The inputs of a protect call: the request, the adapter's body, and what
\* the analyzer and the client answer for this request ("any": not fixed).
\* hashes: what generateFingerprint does; verdict: what each local rule's
\* analysis finds; remote: what client.decide does.

AnyVerdicts == [id \in LocalIds |-> "any"]

\* What client.decide does: it fails, or it returns a decision with a
\* conclusion, a ttl, and results of its own making (one per rule, or none).
Answer(ok, conclusion, ttl, results) ==
    [ok |-> ok, conclusion |-> conclusion, ttl |-> ttl, results |-> results]

AnyAnswer == Answer(TRUE, "any", 0, "none")

\* client.decide throws, rejects or times out
FailedAnswer == Answer(FALSE, "ERROR", 0, "none")

Conclusions == {"ALLOW", "DENY", "CHALLENGE", "ERROR"}

\* everything client.decide can do
ClientAnswers ==
    {FailedAnswer}
    \cup {Answer(TRUE, c, n, r) :
            c \in Conclusions, n \in 0 .. MaxRemoteTtl, r \in {"all", "none"}}

Request(fp, hashes, email, userAgent, body, verdict, remote) ==
    [fp |-> fp, hashes |-> hashes, email |-> email, userAgent |-> userAgent,
     body |-> body, verdict |-> verdict, remote |-> remote, reports |-> "ok"]

\* What client.report does during the call: it returns ("ok"), it returns a
\* promise that rejects, which nothing awaits ("rejects"), or it throws.
ReportOutcomes == {"ok", "rejects", "throws"}

WithReports(req, outcome) == [req EXCEPT !.reports = outcome]

\* client.report throws into protect
ReportThrows(req) == req.reports = "throws"

\* request === undefined becomes {}: no email, no headers
AbsentRequest(fp, body) == Request(fp, "any", FALSE, FALSE, body, AnyVerdicts, AnyAnswer)

\* a request with an email and a user-agent header, and a body to read
FullRequest(fp) == Request(fp, "any", TRUE, TRUE, TRUE, AnyVerdicts, AnyAnswer)

Requests ==
    {AbsentRequest("f1", FALSE)} \cup {FullRequest(fp) : fp \in Fingerprints}

\* the decision client.decide returns
RemoteDecision(ans, rules) ==
    Decision(ans.conclusion, ans.ttl, Reason("REMOTE", 0, ans.conclusion),
             IF ans.results = "none" THEN <<>>
             ELSE [i \in 1 .. Len(rules) |->
                     ArcjetRuleResult(ans.ttl, "RUN", ans.conclusion,
                                      Reason("REMOTE", rules[i], ans.conclusion))])

\* what analyze.generateFingerprint can do: return req.fp, or throw
FingerprintThrows(req) ==
    IF req.hashes = "any" THEN BOOLEAN ELSE {req.hashes = "throws"}

DecideAnswers(req) ==
    IF req.remote = AnyAnswer THEN ClientAnswers ELSE {req.remote}

-----------------------------------------------------------------------------
\* The local rules: validate and protect.

\* validate of the EMAIL, BOT and SENSITIVE_INFO rules
ValidateThrows(rule, req) ==
    CASE rule.type = "EMAIL" -> ~req.email
      [] rule.type = "BOT"   -> ~req.userAgent
      [] OTHER               -> FALSE

ValidateMessage(rule) ==
    IF rule.type = "EMAIL" THEN "ValidateEmail requires email to be set."
    ELSE "bot detection requires user-agent header"

\* what the analyzer (and getBody) can do inside protect
AnalyzerOutcomes(id, rule, req) ==
    LET all == IF rule.type = "SENSITIVE_INFO" /\ ~req.body
               THEN {"nobody", "throws"}
               ELSE {"clean", "flagged", "throws"}
    IN  IF req.verdict[id] = "any" THEN all
        ELSE IF req.verdict[id] \in all THEN {req.verdict[id]} ELSE {"nobody"}

ProtectResultNoBodyDenies(id, rule, outcome) ==
    IF outcome = "flagged"
    THEN ArcjetRuleResult(BotDenyTtl, "RUN", "DENY", Reason(rule.type, id, outcome))
    ELSE IF outcome = "nobody"
         THEN ArcjetRuleResult(0, "NOT_RUN", "DENY", ArcjetErrorReason("no body"))
         ELSE ArcjetRuleResult(0, "RUN", "ALLOW", Reason(rule.type, id, outcome))

\* the result a rule's protect returns
ProtectResult(id, rule, outcome) ==
    CASE rule.type = "SENSITIVE_INFO" ->
            IF outcome = "nobody"
            THEN ArcjetRuleResult(0, "NOT_RUN", "ERROR",
                    ArcjetErrorReason("Couldn't read the body of the request to perform sensitive info identification."))
            ELSE IF outcome = "clean"
                 THEN ArcjetRuleResult(0, "RUN", "ALLOW", Reason("SENSITIVE_INFO", id, outcome))
                 ELSE ArcjetRuleResult(0, "RUN", "DENY", Reason("SENSITIVE_INFO", id, outcome))
      [] rule.type = "EMAIL" ->
            IF outcome = "clean"
            THEN ArcjetRuleResult(0, "RUN", "ALLOW", Reason("EMAIL", id, outcome))
            ELSE ArcjetRuleResult(0, "RUN", "DENY", Reason("EMAIL", id, outcome))
      [] OTHER ->
            IF outcome = "flagged"
            THEN ArcjetRuleResult(BotDenyTtl, "RUN", "DENY", Reason("BOT", id, outcome))
            ELSE ArcjetRuleResult(0, "RUN", "ALLOW", Reason("BOT", id, outcome))

ErrorResultDeny(message) ==
    ArcjetRuleResult(0, "RUN", "DENY", ArcjetErrorReason(message))

\* the catch of the rule loop
ErrorResult(message) ==
    ArcjetRuleResult(0, "RUN", "ERROR", ArcjetErrorReason(message))

\* try { validate; results[idx] = await protect } catch { results[idx] = ERROR }
RunLocalRule(id, rule, req, outcome) ==
    IF ValidateThrows(rule, req) THEN ErrorResult(ValidateMessage(rule))
    ELSE IF outcome = "throws" THEN ErrorResult("analyzer failure")
    ELSE ProtectResult(id, rule, outcome)

AlwaysReturnsOnDeny(rule) == TRUE

NeverReturnsOnDeny(rule) == FALSE

\* rule.mode !== "DRY_RUN"
ReturnsOnDeny(rule) == rule.mode # "DRY_RUN"

CachesBlockAlways(ttl) == ttl >= 0

\* ttl > 0: the block is cached
CachesBlock(ttl) == ttl > 0

-----------------------------------------------------------------------------
\* protect, before the rule loop.

TooManyRulesOffByOne(rules) == Len(rules) >= MaxRules

\* rules.length > 10
TooManyRules(rules) == Len(rules) > MaxRules

NoRulesNever(rules) == FALSE

\* rules.length < 1
NoRules(rules) == Len(rules) < 1

RuleCountDecision ==
    ArcjetErrorDecision(0, ArcjetErrorReason("Only 10 rules may be specified"), <<>>)

InitialResultsRun(rules) ==
    [i \in 1 .. Len(rules) |-> ArcjetRuleResult(0, "RUN", "ALLOW", GenericReason)]

\* results[idx] = NOT_RUN / ALLOW for every rule
InitialResults(rules) ==
    [i \in 1 .. Len(rules) |-> ArcjetRuleResult(0, "NOT_RUN", "ALLOW", GenericReason)]

\* candidate_rule.characteristics = characteristics
InjectCharacteristics(chars, rules, characteristics) ==
    [id \in DOMAIN chars |->
        IF /\ \E i \in 1 .. Len(rules) : rules[i] = id
           /\ isRateLimitRule(RuleObj(id))
           /\ chars[id] = UndefinedChars
        THEN characteristics
        ELSE chars[id]]

\* the rules as a client call receives them
RuleSnapshot(rules, chars) ==
    [i \in 1 .. Len(rules) |-> [id |-> rules[i], characteristics |-> chars[rules[i]]]]

CachedDecisionNoTtl(c, key, t, reason, results) ==
    ArcjetDenyDecision(0, reason, results)

\* the decision built from a cached block
CachedDecision(c, key, t, reason, results) ==
    ArcjetDenyDecision(CacheTtl(c, key, t), reason, results)

RemoteFailureDecisionDeny(results) ==
    ArcjetDenyDecision(0, ArcjetErrorReason("decide failed"), results)

RemoteFailureDecisionNoResults(results) ==
    ArcjetErrorDecision(0, ArcjetErrorReason("decide failed"), <<>>)

\* the decision built when client.decide fails
RemoteFailureDecision(results) ==
    ArcjetErrorDecision(0, ArcjetErrorReason("decide failed"), results)

-----------------------------------------------------------------------------
\* The state of one protect call.

Tasks == DOMAIN pc

Engines == DOMAIN cache

Frame(view, req) ==
    [view |-> view, req |-> req, idx |-> 0, results |-> <<>>,
     existingBlockReason |-> NoReason, answer |-> AnyAnswer,
     decision |-> NoDecision, via |-> ""]

IdleFrame == Frame(0, AbsentRequest("f1", FALSE))

RulesOf(t) == views[frame[t].view].rules

EngOf(t) == views[frame[t].view].eng

Event(op, idx) == [op |-> op, idx |-> idx]

Rpc(op, decision, rules) == [op |-> op, decision |-> decision, rules |-> rules]

\* a blockCache.set, and the path it was made on
Write(by) == [by |-> by]

\* no entry
NoWrite == Write("")

NoWrites == [fp \in Fingerprints |-> NoWrite]

\* no direct call yet
NoCall == [op |-> "", args |-> <<>>, result |-> <<>>]

\* A call between blockCache.get and blockCache.ttl runs without an await:
\* no other call and no withRule runs in between (the clock does).
NoOtherSync(t) == \A u \in Tasks \ {t} : pc[u] # "blocked"

\* protect after a client.report call: a throw leaves protect at once
AfterReport(req, next) == IF ReportThrows(req) THEN "rejected" ELSE next

\* the frame after a client.report call and the return that follows it
ReturnAfterReport(f, decision, via) ==
    IF ReportThrows(f.req)
    THEN [f EXCEPT !.via = "client.report"]
    ELSE [f EXCEPT !.decision = decision, !.via = via]

\* where protect waits with the loop at idx: for the protect of rule idx, or,
\* past the last rule, for client.decide
LoopPc(rules, idx) == IF idx > Len(rules) THEN "decide" ELSE "rules"

RECURSIVE RunToAwait(_, _, _, _, _)
\* The rule loop from rule idx up to its next await, which nothing interrupts:
\* rules without validate and protect are skipped, a rule whose validate
\* throws gets the ERROR result of the catch (which is not denied, so the loop
\* goes on), and the first rule whose validate returns has its protect
\* called. The position reached (past the last rule when no protect was
\* called), the results and the log.
RunToAwait(rules, req, idx, results, log) ==
    IF idx > Len(rules) THEN [idx |-> idx, results |-> results, log |-> log]
    ELSE LET rule == RuleObj(rules[idx])
         IN  IF ~isLocalRule(rule)
             THEN RunToAwait(rules, req, idx + 1, results, log)
             ELSE IF ValidateThrows(rule, req)
             THEN RunToAwait(rules, req, idx + 1,
                             [results EXCEPT ![idx] = RunLocalRule(rules[idx], rule, req, "throws")],
                             log \o <<Event("validate", idx), Event("error", idx)>>)
             ELSE [idx |-> idx, results |-> results,
                   log |-> log \o <<Event("validate", idx), Event("protect", idx)>>]

\* client.decide(context, details, rules) is called when the loop has ended
DecideCalled(rules, idx, chars) ==
    IF idx > Len(rules) THEN <<Rpc("decide", NoDecision, RuleSnapshot(rules, chars))>>
    ELSE <<>>

-----------------------------------------------------------------------------
\* protect: from the call to the await of generateFingerprint.
Start(t, v, req) ==
    /\ pc[t] \in {"idle", "returned", "rejected"}
    /\ NoOtherSync(t)
    /\ pc' = [pc EXCEPT ![t] = "fingerprint"]
    /\ frame' = [frame EXCEPT ![t] = Frame(v, req)]
    /\ calls' = [calls EXCEPT ![t] = <<>>]
    /\ rpc' = [rpc EXCEPT ![t] = <<>>]
    /\ UNCHANGED <<views, options, ruleChars, cache, now, requests, written, ret>>

\* protect: generateFingerprint settles; the rule count, the default results,
\* the characteristics of the rate limit rules, and blockCache.get.
AfterFingerprint(t) ==
    /\ pc[t] = "fingerprint"
    /\ NoOtherSync(t)
    /\ \E thrown \in FingerprintThrows(frame[t].req) :
        LET rules == RulesOf(t)
            e == EngOf(t)
            fp == frame[t].req.fp
            warn == IF NoRules(rules) THEN <<Event("warn.norules", 0)>> ELSE <<>>
            results == InitialResults(rules)
            chars == InjectCharacteristics(ruleChars, rules, options[e].characteristics)
            existing == CacheGet(cache[e], fp, now)
            loop == RunToAwait(rules, frame[t].req, 1, results, <<>>)
        IN  IF thrown
            THEN /\ pc' = [pc EXCEPT ![t] = "rejected"]
                 /\ frame' = [frame EXCEPT ![t].via = "generateFingerprint"]
                 /\ UNCHANGED <<ruleChars, cache, written, calls, rpc>>
            ELSE IF TooManyRules(rules)
            THEN /\ pc' = [pc EXCEPT ![t] = AfterReport(frame[t].req, "returned")]
                 /\ frame' = [frame EXCEPT ![t] =
                                ReturnAfterReport(@, RuleCountDecision, "count")]
                 /\ calls' = [calls EXCEPT ![t] = warn \o <<Event("error", 0)>>]
                 /\ rpc' = [rpc EXCEPT ![t] = <<Rpc("report", RuleCountDecision, <<>>)>>]
                 /\ UNCHANGED <<ruleChars, cache, written>>
            ELSE /\ ruleChars' = chars
                 /\ cache' = [cache EXCEPT ![e] = CacheAfterGet(cache[e], fp, now)]
                 /\ written' = IF existing = NoReason
                               THEN [written EXCEPT ![e][fp] = NoWrite]
                               ELSE written
                 /\ IF existing # NoReason
                    THEN /\ calls' = [calls EXCEPT ![t] = warn \o <<Event("cache.get", 0)>>]
                         /\ rpc' = rpc
                         /\ frame' = [frame EXCEPT ![t].results = results,
                                                   ![t].existingBlockReason = existing,
                                                   ![t].idx = 1]
                         /\ pc' = [pc EXCEPT ![t] = "blocked"]
                    ELSE /\ calls' = [calls EXCEPT ![t] =
                                        warn \o <<Event("cache.get", 0)>> \o loop.log]
                         /\ rpc' = [rpc EXCEPT ![t] = DecideCalled(rules, loop.idx, chars)]
                         /\ frame' = [frame EXCEPT ![t].results = loop.results,
                                                   ![t].existingBlockReason = existing,
                                                   ![t].idx = loop.idx]
                         /\ pc' = [pc EXCEPT ![t] = LoopPc(rules, loop.idx)]
    /\ UNCHANGED <<views, options, now, requests, ret>>

\* protect: a cached block: blockCache.ttl, the DENY decision, client.report.
Blocked(t) ==
    /\ pc[t] = "blocked"
    /\ LET e == EngOf(t)
           decision == CachedDecision(cache[e], frame[t].req.fp, now,
                                      frame[t].existingBlockReason, frame[t].results)
       IN  /\ frame' = [frame EXCEPT ![t] = ReturnAfterReport(@, decision, "cache")]
           /\ calls' = [calls EXCEPT ![t] = Append(@, Event("cache.ttl", 0))]
           /\ rpc' = [rpc EXCEPT ![t] =
                        Append(@, Rpc("report", decision, RuleSnapshot(RulesOf(t), ruleChars)))]
    /\ pc' = [pc EXCEPT ![t] = AfterReport(frame[t].req, "returned")]
    /\ UNCHANGED <<views, options, ruleChars, cache, now, requests, written, ret>>

\* protect: the protect of rule idx settles; its result, the report and the
\* block of a DENY, and the loop up to the next await.
EvalRule(t) ==
    /\ pc[t] = "rules"
    /\ NoOtherSync(t)
    /\ LET rules == RulesOf(t)
           e == EngOf(t)
           req == frame[t].req
           idx == frame[t].idx
           id == rules[idx]
           rule == RuleObj(id)
       IN  \E outcome \in AnalyzerOutcomes(id, rule, req) :
                LET result == RunLocalRule(id, rule, req, outcome)
                    results == [frame[t].results EXCEPT ![idx] = result]
                    ran == IF outcome = "throws" THEN <<Event("error", idx)>> ELSE <<>>
                    decision == ArcjetDenyDecision(result.ttl, result.reason, results)
                    report == Rpc("report", decision, RuleSnapshot(rules, ruleChars))
                    loop == RunToAwait(rules, req, idx + 1, results, <<>>)
                IN  IF ~isDenied(result)
                    THEN /\ frame' = [frame EXCEPT ![t].results = loop.results,
                                                   ![t].idx = loop.idx]
                         /\ pc' = [pc EXCEPT ![t] = LoopPc(rules, loop.idx)]
                         /\ calls' = [calls EXCEPT ![t] = @ \o ran \o loop.log]
                         /\ rpc' = [rpc EXCEPT ![t] =
                                      @ \o DecideCalled(rules, loop.idx, ruleChars)]
                         /\ UNCHANGED <<cache, written>>
                    ELSE IF ReturnsOnDeny(rule)
                    THEN /\ frame' = [frame EXCEPT ![t] =
                                        ReturnAfterReport([@ EXCEPT !.results = results],
                                                          decision, "local")]
                         /\ pc' = [pc EXCEPT ![t] = AfterReport(req, "returned")]
                         /\ calls' = [calls EXCEPT ![t] = @ \o ran]
                         /\ rpc' = [rpc EXCEPT ![t] = Append(@, report)]
                         /\ cache' = IF CachesBlock(result.ttl) /\ ~ReportThrows(req)
                                     THEN [cache EXCEPT ![e] =
                                             CacheSet(@, req.fp, decision.reason,
                                                      now + decision.ttl)]
                                     ELSE cache
                         /\ written' = IF CachesBlock(result.ttl) /\ ~ReportThrows(req)
                                       THEN [written EXCEPT ![e][req.fp] =
                                               Write("local")]
                                       ELSE written
                    ELSE IF ReportThrows(req)
                    THEN /\ frame' = [frame EXCEPT ![t].results = results,
                                                   ![t].via = "client.report"]
                         /\ pc' = [pc EXCEPT ![t] = "rejected"]
                         /\ calls' = [calls EXCEPT ![t] = @ \o ran]
                         /\ rpc' = [rpc EXCEPT ![t] = Append(@, report)]
                         /\ UNCHANGED <<cache, written>>
                    ELSE /\ frame' = [frame EXCEPT ![t].results = loop.results,
                                                   ![t].idx = loop.idx]
                         /\ pc' = [pc EXCEPT ![t] = LoopPc(rules, loop.idx)]
                         /\ calls' = [calls EXCEPT ![t] =
                                        @ \o ran \o <<Event("warn.dryrun", idx)>> \o loop.log]
                         /\ rpc' = [rpc EXCEPT ![t] =
                                      Append(@, report)
                                      \o DecideCalled(rules, loop.idx, ruleChars)]
                         /\ UNCHANGED <<cache, written>>
    /\ UNCHANGED <<views, options, ruleChars, now, requests, ret>>

\* protect: client.decide settles.
Decide(t) ==
    /\ pc[t] = "decide"
    /\ NoOtherSync(t)
    /\ \E ans \in DecideAnswers(frame[t].req) :
        LET rules == RulesOf(t)
            e == EngOf(t)
            decision == RemoteDecision(ans, rules)
            failure == RemoteFailureDecision(frame[t].results)
        IN  IF ans.ok
            THEN /\ pc' = [pc EXCEPT ![t] = "returned"]
                 /\ frame' = [frame EXCEPT ![t].decision = decision, ![t].answer = ans,
                                           ![t].via = "remote"]
                 /\ rpc' = rpc
                 /\ calls' = calls
                 /\ cache' = IF isDenied(decision) /\ CachesBlock(decision.ttl)
                             THEN [cache EXCEPT ![e] =
                                     CacheSet(@, frame[t].req.fp, decision.reason,
                                              now + decision.ttl)]
                             ELSE cache
                 /\ written' = IF isDenied(decision) /\ CachesBlock(decision.ttl)
                               THEN [written EXCEPT ![e][frame[t].req.fp] =
                                       Write("remote")]
                               ELSE written
            ELSE /\ pc' = [pc EXCEPT ![t] = AfterReport(frame[t].req, "returned")]
                 /\ frame' = [frame EXCEPT ![t] =
                                ReturnAfterReport([@ EXCEPT !.answer = ans],
                                                  failure, "remote error")]
                 /\ rpc' = [rpc EXCEPT ![t] =
                              Append(@, Rpc("report", failure, RuleSnapshot(rules, ruleChars)))]
                 /\ calls' = [calls EXCEPT ![t] = Append(@, Event("error", 0))]
                 /\ UNCHANGED <<cache, written>>
    /\ UNCHANGED <<views, options, ruleChars, now, requests, ret>>

\* Date.now() advances.
Tick ==
    /\ now < MaxNow
    /\ now' = now + 1
    /\ UNCHANGED <<views, options, ruleChars, cache, requests, pc, frame, calls, rpc,
                   written, ret>>

\* the primitives handed to withRule
Primitives == {<<6>>, <<8 + MaxRules>>}

\* aj.withRule(rule) on view v, for rule objects the view does not hold yet
AddView(v, rule) ==
    /\ \A t \in Tasks : pc[t] # "blocked"
    /\ \A i \in 1 .. Len(views[v].rules) : \A k \in 1 .. Len(rule) :
          views[v].rules[i] # rule[k]
    /\ views' = Append(views, [eng |-> views[v].eng,
                               rules |-> WithRuleRules(views[v].rules, rule),
                               declared |-> views[v].declared \o rule])
    /\ UNCHANGED <<options, ruleChars, cache, now, requests, pc, frame, calls, rpc,
                   written, ret>>

WithRule(v, rule) == Len(views) < MaxViews /\ AddView(v, rule)

-----------------------------------------------------------------------------
\* options.rules of the engines of the model.

\* shield(opt1, ..., optn)
Pads(n) == [i \in 1 .. n |-> 7 + i]

\* options.rules with MaxRules rules and with one more
TenRules == << <<4>>, Pads(MaxRules - 1) >>

ElevenRules == << <<4>>, Pads(MaxRules) >>

Configs ==
    { <<>>,
      << <<6>>, <<5>> >>,
      << <<3>>, <<2>>, <<6>> >>,
      << <<5>>, <<4>>, <<1>> >>,
      TenRules,
      ElevenRules }

\* arcjet(options): one engine, no call running.
Init ==
    /\ \E cfg \in Configs : options = <<[rules |-> cfg, characteristics |-> <<"ip.src">>]>>
    /\ views = <<[eng |-> 1, rules |-> RootRules(options[1].rules),
                  declared |-> Flat(options[1].rules)]>>
    /\ ruleChars = [id \in RuleIds |-> RuleObj(id).characteristics]
    /\ cache = <<NewCache>>
    /\ now = 0
    /\ requests = Requests
    /\ pc = <<"idle">>
    /\ frame = <<IdleFrame>>
    /\ calls = << <<>> >>
    /\ rpc = << <<>> >>
    /\ written = <<NoWrites>>
    /\ ret = NoCall

Next ==
    \/ \E t \in Tasks, v \in 1 .. Len(views), req \in requests : Start(t, v, req)
    \/ \E t \in Tasks : AfterFingerprint(t)
    \/ \E t \in Tasks : Blocked(t)
    \/ \E t \in Tasks : EvalRule(t)
    \/ \E t \in Tasks : Decide(t)
    \/ \E v \in 1 .. Len(views), rule \in Primitives : WithRule(v, rule)
    \/ Tick

Spec == Init /\ [][Next]_vars

-----------------------------------------------------------------------------
\* What a call did, read from its frame and its logs.

Called(t, op) == \E k \in 1 .. Len(calls[t]) : calls[t][k].op = op

CalledAt(t, op, i) == \E k \in 1 .. Len(calls[t]) : calls[t][k] = Event(op, i)

Decided(t) == \E k \in 1 .. Len(rpc[t]) : rpc[t][k].op = "decide"

Returned(t) == pc[t] = "returned"

RuleAt(t, i) == RuleObj(RulesOf(t)[i])

Positions(t) == 1 .. Len(frame[t].results)

LiveDenied(t, i) ==
    /\ isLocalRule(RuleAt(t, i))
    /\ RuleAt(t, i).mode = "LIVE"
    /\ frame[t].results[i].conclusion = "DENY"

DryRunDenied(t, i) ==
    /\ isLocalRule(RuleAt(t, i))
    /\ RuleAt(t, i).mode = "DRY_RUN"
    /\ frame[t].results[i].conclusion = "DENY"

\* the loop is past rule j
Past(t, j) == pc[t] \in {"returned", "decide"} \/ frame[t].idx > j

\* a block for key that is live at clock value t
LiveBlock(c, key, t) == key \in DOMAIN c.expires /\ c.expires[key] > t

DefaultResult ==
    [ttl |-> 0, state |-> "NOT_RUN", conclusion |-> "ALLOW",
     reason |-> [type |-> "GENERIC", rule |-> 0, message |-> ""]]

-----------------------------------------------------------------------------
\* C1: protect always completes by returning a Decision; it never throws or
\* rejects to its caller, whatever the analyzer, the rules and the client do
\* (generateFingerprint throwing included).
C1_ProtectNeverRejects == \A t \in Tasks : pc[t] # "rejected"

\* C2: when client.decide fails, protect returns an ERROR decision (never
\* DENY) whose reason carries the error and whose results are the local
\* results computed so far, reports that decision with client.report, leaves
\* the block cache unchanged and does not re-raise.
C2_DecideFailureFailsOpen ==
    [][\A t \in Tasks :
        (pc[t] = "decide" /\ pc'[t] # "decide" /\ frame'[t].answer = FailedAnswer) =>
            /\ pc'[t] = "returned"
            /\ frame'[t].decision.conclusion = "ERROR"
            /\ frame'[t].decision.reason = [type |-> "ERROR", rule |-> 0, message |-> "decide failed"]
            /\ frame'[t].decision.results = frame[t].results
            /\ rpc'[t][Len(rpc'[t])].op = "report"
            /\ rpc'[t][Len(rpc'[t])].decision = frame'[t].decision
            /\ cache' = cache]_vars

C2_Witness ==
    \E t \in Tasks :
        /\ Returned(t)
        /\ frame[t].answer = FailedAnswer
        /\ \E i \in Positions(t) : frame[t].results[i].state = "RUN"

\* C3 (as amended): on a view of at most 10 rules, when the fingerprint has a
\* live cached block at the cache lookup, protect returns a DENY decision with
\* the cached reason and ttl = cache.ttl(f), every result NOT_RUN, and it
\* invokes no validate, no protect and no client.decide.
C3_CachedBlockDenies ==
    [][\A t \in Tasks :
        /\ ( /\ pc[t] = "fingerprint" /\ pc'[t] \notin {"fingerprint", "rejected"}
             /\ Len(RulesOf(t)) <= 10
             /\ LiveBlock(cache[EngOf(t)], frame[t].req.fp, now) )
           => /\ pc'[t] = "blocked"
              /\ frame'[t].existingBlockReason = cache[EngOf(t)].data[frame[t].req.fp]
        /\ (pc[t] = "blocked" /\ pc'[t] # "blocked")
           => /\ pc'[t] = "returned"
              /\ frame'[t].decision.conclusion = "DENY"
              /\ frame'[t].decision.reason = cache[EngOf(t)].data[frame[t].req.fp]
              /\ frame'[t].decision.ttl = cache[EngOf(t)].expires[frame[t].req.fp] - now
              /\ Len(frame'[t].decision.results) = Len(RulesOf(t))
              /\ \A i \in 1 .. Len(RulesOf(t)) :
                    frame'[t].decision.results[i] = DefaultResult
              /\ \A k \in 1 .. Len(calls'[t]) : calls'[t][k].op \notin {"validate", "protect"}
              /\ \A k \in 1 .. Len(rpc'[t]) : rpc'[t][k].op # "decide"]_vars

C3_Witness ==
    \E t \in Tasks :
        /\ Returned(t)
        /\ frame[t].existingBlockReason # NoReason
        /\ frame[t].decision.ttl > 0
        /\ \E i \in 1 .. Len(RulesOf(t)) : isLocalRule(RuleAt(t, i))

\* C3 (original): whenever the fingerprint has a live cached block at the
\* lookup, protect takes the cached-block path and returns the cached DENY.
C3_Original ==
    [][\A t \in Tasks :
        ( /\ pc[t] = "fingerprint" /\ pc'[t] \notin {"fingerprint", "rejected"}
          /\ LiveBlock(cache[EngOf(t)], frame[t].req.fp, now) )
        => /\ pc'[t] = "blocked"
           /\ frame'[t].existingBlockReason = cache[EngOf(t)].data[frame[t].req.fp]]_vars

\* C4: a DENY result of a DRY_RUN rule never makes protect return DENY: a
\* warning is logged, evaluation goes on with the next rule, and the decision
\* returned is never the DENY decision built from that rule's result.
C4_DryRunDenyOverridden ==
    \A t \in Tasks : \A i \in Positions(t) :
        DryRunDenied(t, i) =>
            /\ CalledAt(t, "warn.dryrun", i)
            /\ frame[t].idx > i
            /\ \A j \in Positions(t) :
                  ( /\ j > i /\ isLocalRule(RuleAt(t, j)) /\ Past(t, j)
                    /\ \A k \in (i + 1) .. (j - 1) : ~isLocalRule(RuleAt(t, k)) )
                  => CalledAt(t, "validate", j)
            /\ Returned(t) =>
                  ~( /\ frame[t].decision.conclusion = "DENY"
                     /\ frame[t].decision.reason = frame[t].results[i].reason )

C4_Witness ==
    \E t \in Tasks : \E i \in Positions(t) :
        /\ DryRunDenied(t, i)
        /\ Returned(t)
        /\ frame[t].decision.conclusion = "DENY"
        /\ \E j \in Positions(t) : j > i /\ CalledAt(t, "protect", j)

\* C5: the first LIVE local rule that yields DENY ends the request: protect
\* returns a DENY decision with that rule's ttl and reason, no later rule is
\* validated or protected and client.decide is not called; a DENY of a
\* DRY_RUN rule ends only that rule.
C5_LiveDenyEndsRequest ==
    \A t \in Tasks : \A i \in Positions(t) :
        /\ LiveDenied(t, i) =>
            /\ Returned(t)
            /\ frame[t].decision =
                  [conclusion |-> "DENY", ttl |-> frame[t].results[i].ttl,
                   reason |-> frame[t].results[i].reason, results |-> frame[t].results]
            /\ \A j \in Positions(t) :
                  j > i => /\ ~CalledAt(t, "validate", j)
                           /\ ~CalledAt(t, "protect", j)
                           /\ frame[t].results[j] = DefaultResult
            /\ \A j \in Positions(t) : j < i => ~LiveDenied(t, j)
            /\ ~Decided(t)
        /\ (DryRunDenied(t, i) /\ Returned(t)) =>
              \/ Decided(t)
              \/ \E k \in Positions(t) : k > i /\ LiveDenied(t, k)

C5_Witness ==
    \E t \in Tasks : \E i \in Positions(t) :
        /\ LiveDenied(t, i)
        /\ \E j \in Positions(t) : j > i /\ isLocalRule(RuleAt(t, j))
        /\ \E j \in Positions(t) : j < i /\ CalledAt(t, "protect", j)

RuleCountError ==
    [conclusion |-> "ERROR", ttl |-> 0,
     reason |-> [type |-> "ERROR", rule |-> 0, message |-> "Only 10 rules may be specified"],
     results |-> <<>>]

\* C6: with more than 10 rules protect returns an ERROR decision with reason
\* "Only 10 rules may be specified" and empty results, reports it with an
\* empty rule list, evaluates no rule, does not consult the block cache and
\* does not call client.decide; exactly 10 rules are evaluated normally.
C6_RuleCountLimit ==
    \A t \in Tasks :
        frame[t].view # 0 =>
            /\ Len(RulesOf(t)) > 10 =>
                /\ \A k \in 1 .. Len(calls[t]) :
                      calls[t][k].op \notin {"validate", "protect", "cache.get", "cache.ttl"}
                /\ ~Decided(t)
                /\ pc[t] \in {"fingerprint", "returned", "rejected"}
                /\ Returned(t) =>
                      /\ frame[t].decision = RuleCountError
                      /\ rpc[t] = <<[op |-> "report", decision |-> RuleCountError, rules |-> <<>>]>>
            /\ (Len(RulesOf(t)) = 10 /\ Returned(t)) =>
                /\ frame[t].decision # RuleCountError
                /\ Called(t, "cache.get")
                /\ \A k \in 1 .. Len(rpc[t]) : Len(rpc[t][k].rules) = 10
                /\ \/ Decided(t)
                   \/ frame[t].existingBlockReason # NoReason
                   \/ \E i \in Positions(t) : LiveDenied(t, i)

C6_Witness ==
    \E t \in Tasks : Returned(t) /\ Len(RulesOf(t)) > 10 /\ Len(rpc[t]) = 1

\* the rules after rule i run until a LIVE rule denies
LaterRulesRun(t, i, untilDeny) ==
    \A j \in Positions(t) :
        (j > i /\ isLocalRule(RuleAt(t, j)) /\ Past(t, j)) =>
            \/ CalledAt(t, "validate", j)
            \/ untilDeny /\ \E k \in (i + 1) .. (j - 1) : LiveDenied(t, k)

RuleThrew(t, i) == CalledAt(t, "error", i)

ErrorRecovered(t, i) ==
    /\ frame[t].results[i].state = "RUN"
    /\ frame[t].results[i].conclusion = "ERROR"
    /\ frame[t].results[i].reason.type = "ERROR"
    /\ frame[t].idx > i
    /\ Returned(t) =>
          ~( /\ frame[t].decision.conclusion = "DENY"
             /\ frame[t].decision.reason = frame[t].results[i].reason )

\* C7 (as amended): when validate or protect of a local rule throws, the
\* rule's result is {state: RUN, conclusion: ERROR} with an error reason, the
\* request is not denied because of it, and the rules after it are still
\* evaluated, up to the first LIVE rule that yields DENY.
C7_RuleErrorRecovered ==
    \A t \in Tasks : \A i \in Positions(t) :
        RuleThrew(t, i) => ErrorRecovered(t, i) /\ LaterRulesRun(t, i, TRUE)

C7_Witness ==
    \E t \in Tasks : \E i \in Positions(t) :
        /\ RuleThrew(t, i)
        /\ Returned(t)
        /\ \E j \in Positions(t) : j > i /\ CalledAt(t, "protect", j)

\* C7 (original): ... and every subsequent rule in the list is still evaluated.
C7_Original ==
    \A t \in Tasks : \A i \in Positions(t) :
        RuleThrew(t, i) => ErrorRecovered(t, i) /\ LaterRulesRun(t, i, FALSE)

\* the number of results the engine builds for a view
ExpectedLength(t) == IF Len(RulesOf(t)) > 10 THEN 0 ELSE Len(RulesOf(t))

\* client.decide returned a decision
DecideSucceeded(t) == Decided(t) /\ frame[t].answer.ok

\* C8 (as amended): every decision protect builds itself (cached block, local
\* DENY, remote failure) has one result per rule of the view, and none in the
\* rule-count error case; a decision client.decide returned is passed on with
\* the results the client gave it.
C8_ResultsLength ==
    \A t \in Tasks :
        Returned(t) =>
            IF DecideSucceeded(t)
            THEN /\ frame[t].answer.results = "none" => Len(frame[t].decision.results) = 0
                 /\ frame[t].answer.results = "all" =>
                        Len(frame[t].decision.results) = Len(RulesOf(t))
            ELSE Len(frame[t].decision.results) = ExpectedLength(t)

C8_Witness ==
    \E t \in Tasks :
        /\ Returned(t)
        /\ ~Decided(t)
        /\ frame[t].existingBlockReason # NoReason
        /\ Len(frame[t].decision.results) = 3

\* C8 (original): every decision returned has results.length equal to the
\* number of rules, or 0 in the rule-count error case.
C8_Original ==
    \A t \in Tasks :
        Returned(t) => Len(frame[t].decision.results) = ExpectedLength(t)

\* the decision the client's answer stands for
ClientDecision(t) ==
    [conclusion |-> frame[t].answer.conclusion, ttl |-> frame[t].answer.ttl,
     reason |-> [type |-> "REMOTE", rule |-> 0, message |-> frame[t].answer.conclusion],
     results |-> <<>>]

\* C10 (as amended): with an empty rule list protect logs a warning and
\* consults the block cache like any other call; with no live block for the
\* fingerprint it calls client.decide and returns the client's decision (an
\* ERROR decision if decide fails); with a live block it returns the cached
\* DENY and does not call client.decide.
C10_EmptyRuleList ==
    \A t \in Tasks :
        (frame[t].view # 0 /\ Len(RulesOf(t)) = 0 /\ pc[t] \notin {"fingerprint", "rejected"}) =>
            /\ CalledAt(t, "warn.norules", 0)
            /\ Called(t, "cache.get")
            /\ ~Called(t, "validate") /\ ~Called(t, "protect")
            /\ Returned(t) =>
                IF frame[t].existingBlockReason # NoReason
                THEN /\ ~Decided(t)
                     /\ frame[t].decision.conclusion = "DENY"
                     /\ frame[t].decision.reason = frame[t].existingBlockReason
                ELSE /\ Decided(t)
                     /\ frame[t].answer.ok => frame[t].decision = ClientDecision(t)
                     /\ ~frame[t].answer.ok => frame[t].decision.conclusion = "ERROR"

C10_Witness ==
    \E t \in Tasks :
        /\ Returned(t)
        /\ Len(RulesOf(t)) = 0
        /\ frame[t].existingBlockReason # NoReason

\* C10 (original): with an empty rule list protect logs a warning, never
\* consults the block cache, calls client.decide and returns the decision the
\* client returned.
C10_Original ==
    \A t \in Tasks :
        (frame[t].view # 0 /\ Len(RulesOf(t)) = 0 /\ pc[t] \notin {"fingerprint", "rejected"}) =>
            /\ CalledAt(t, "warn.norules", 0)
            /\ ~Called(t, "cache.get")
            /\ Returned(t) =>
                /\ frame[t].existingBlockReason = NoReason
                /\ Decided(t)
                /\ frame[t].answer.ok => frame[t].decision = ClientDecision(t)

-----------------------------------------------------------------------------
\* Two engines built from the same rules in two declaration orders, given the
\* same requests at the same clock values by an analyzer and a client whose
\* answers are fixed by the request.

\* every order of the elements of s
Perms(s) ==
    {[i \in 1 .. Len(s) |-> s[f[i]]] :
        f \in {g \in [1 .. Len(s) -> 1 .. Len(s)] :
                 \A i, j \in 1 .. Len(s) : g[i] = g[j] => i = j}}

\* options.rules of the first engine
PermConfigs ==
    { << <<5>>, <<4>>, <<1>> >>,
      << <<6>>, <<5>> >>,
      << <<3>>, <<2>>, <<6>> >>,
      << <<5>>, <<6>>, <<4>> >> }

\* what the analyzer finds for each local rule
PermVerdicts ==
    { [id \in LocalIds |-> "clean"],
      [id \in LocalIds |-> "flagged"],
      [id \in LocalIds |-> IF id = 4 THEN "flagged" ELSE "clean"],
      [id \in LocalIds |-> IF id = 1 THEN "throws" ELSE "clean"] }

\* what the client answers
PermAnswers ==
    {FailedAnswer, Answer(TRUE, "ALLOW", 0, "none"), Answer(TRUE, "DENY", MaxRemoteTtl, "none")}

PermRequests ==
    {Request(fp, "ok", TRUE, TRUE, TRUE, verdict, remote) :
        fp \in Fingerprints, verdict \in PermVerdicts, remote \in PermAnswers}
    \cup {Request("f1", "throws", TRUE, TRUE, TRUE, [id \in LocalIds |-> "clean"], FailedAnswer)}

\* arcjet(options) twice: the same rules, declared in two orders.
InitPerm ==
    /\ \E cfg \in PermConfigs : \E perm \in Perms(cfg) :
          options = << [rules |-> cfg, characteristics |-> <<"ip.src">>],
                       [rules |-> perm, characteristics |-> <<"ip.src">>] >>
    /\ views = << [eng |-> 1, rules |-> RootRules(options[1].rules),
                   declared |-> Flat(options[1].rules)],
                  [eng |-> 2, rules |-> RootRules(options[2].rules),
                   declared |-> Flat(options[2].rules)] >>
    /\ ruleChars = [id \in RuleIds |-> RuleObj(id).characteristics]
    /\ cache = <<NewCache, NewCache>>
    /\ now = 0
    /\ requests = PermRequests
    /\ pc = <<"idle", "idle">>
    /\ frame = <<IdleFrame, IdleFrame>>
    /\ calls = << <<>>, <<>> >>
    /\ rpc = << <<>>, <<>> >>
    /\ written = <<NoWrites, NoWrites>>
    /\ ret = NoCall

\* no protect call is running
AllSettled == \A t \in Tasks : pc[t] \in {"idle", "returned", "rejected"}

\* protect(req) on both engines
StartPair(req) ==
    /\ AllSettled
    /\ pc' = [t \in Tasks |-> "fingerprint"]
    /\ frame' = [t \in Tasks |-> Frame(t, req)]
    /\ calls' = [t \in Tasks |-> <<>>]
    /\ rpc' = [t \in Tasks |-> <<>>]
    /\ UNCHANGED <<views, options, ruleChars, cache, now, requests, written, ret>>

\* Date.now() advances between two calls
TickSettled == AllSettled /\ Tick

NextPerm ==
    \/ \E req \in requests : StartPair(req)
    \/ \E t \in Tasks : AfterFingerprint(t)
    \/ \E t \in Tasks : Blocked(t)
    \/ \E t \in Tasks : EvalRule(t)
    \/ \E t \in Tasks : Decide(t)
    \/ TickSettled

SpecPerm == InitPerm /\ [][NextPerm]_vars

\* position of rule id in a rule list
Position(ids, id) == CHOOSE i \in 1 .. Len(ids) : ids[i] = id

\* P keeps the declaration order of every two rules of equal priority of R
SameTieOrder(R, P) ==
    LET r == Flat(R)
        p == Flat(P)
    IN  \A i, j \in 1 .. Len(r) :
            (i < j /\ RuleObj(r[i]).priority = RuleObj(r[j]).priority)
                => Position(p, r[i]) < Position(p, r[j])

BothReturned == Returned(1) /\ Returned(2)

\* C9 (as amended): for every rule set R, every permutation P of R that keeps
\* the declaration order of the rules of equal priority, and every request,
\* the engine configured with R and the engine configured with P return the
\* same Decision (conclusion, reason, ttl and results), given the same
\* analyzer and client behaviour and the same cache state.
C9_PermutationSameDecision ==
    (BothReturned /\ SameTieOrder(options[1].rules, options[2].rules)) =>
        /\ frame[1].decision = frame[2].decision
        /\ cache[1] = cache[2]

C9_Witness ==
    /\ BothReturned
    /\ options[1].rules # options[2].rules
    /\ SameTieOrder(options[1].rules, options[2].rules)
    /\ views[2].rules # Flat(options[2].rules)
    /\ frame[1].decision.conclusion = "DENY"
    /\ \E i \in DOMAIN frame[1].decision.results :
          i > 1 /\ frame[1].decision.results[i].state = "RUN"

\* C9 (original): for every rule set R, every permutation P of R and every
\* request, both engines return the same Decision.
C9_Original ==
    BothReturned => frame[1].decision = frame[2].decision

-----------------------------------------------------------------------------
\* The order of a view's rules, and the order in which a call evaluates them.

\* ids is in non-decreasing priority
SortedByPriority(ids) ==
    \A i, j \in 1 .. Len(ids) :
        i < j => RuleObj(ids[i]).priority <= RuleObj(ids[j]).priority

\* a stands before b in ids
Before(ids, a, b) ==
    \E i, j \in 1 .. Len(ids) : i < j /\ ids[i] = a /\ ids[j] = b

\* rules of equal priority stand in ids in the order they have in declared
TiesAsDeclared(ids, declared) ==
    \A i, j \in 1 .. Len(ids) :
        (i < j /\ RuleObj(ids[i]).priority = RuleObj(ids[j]).priority)
            => Before(declared, ids[i], ids[j])

\* ids holds the rules of declared, each once
SameRules(ids, declared) ==
    /\ Len(ids) = Len(declared)
    /\ \A i \in 1 .. Len(declared) : \E j \in 1 .. Len(ids) : ids[j] = declared[i]
    /\ \A j \in 1 .. Len(ids) : \E i \in 1 .. Len(declared) : ids[j] = declared[i]

\* the positions of the rules a call validated, in the order of the calls
Validated(t) ==
    LET ks == {k \in 1 .. Len(calls[t]) : calls[t][k].op = "validate"}
    IN  [k \in ks |-> calls[t][k].idx]

\* C11: in every engine view (root or made by any chain of withRule), the
\* local rules are evaluated in non-decreasing priority, and two rules of
\* equal priority in their original declaration order.
C11_EvaluationOrder ==
    /\ \A v \in 1 .. Len(views) :
          /\ SortedByPriority(views[v].rules)
          /\ TiesAsDeclared(views[v].rules, views[v].declared)
    /\ \A t \in Tasks :
          \A k, l \in DOMAIN Validated(t) : k < l => Validated(t)[k] < Validated(t)[l]


-----------------------------------------------------------------------------
\* Chains of withRule calls: views of views, made from primitives and products.

\* options.rules of the root
ChainConfigs == { << <<5>>, <<4>>, <<1>> >>, << <<6>>, <<5>> >> }

\* the primitives and products handed to withRule
ChainPrimitives == Primitives \cup {<<7, 2>>}

ChainWithRule(v, rule) == Len(views) < MaxChain /\ AddView(v, rule)

InitChain ==
    /\ \E cfg \in ChainConfigs : options = <<[rules |-> cfg, characteristics |-> <<"ip.src">>]>>
    /\ views = <<[eng |-> 1, rules |-> RootRules(options[1].rules),
                  declared |-> Flat(options[1].rules)]>>
    /\ ruleChars = [id \in RuleIds |-> RuleObj(id).characteristics]
    /\ cache = <<NewCache>>
    /\ now = 0
    /\ requests = {FullRequest("f1")}
    /\ pc = <<"idle">>
    /\ frame = <<IdleFrame>>
    /\ calls = << <<>> >>
    /\ rpc = << <<>> >>
    /\ written = <<NoWrites>>
    /\ ret = NoCall

NextChain ==
    \/ \E t \in Tasks, v \in 1 .. Len(views), req \in requests : Start(t, v, req)
    \/ \E t \in Tasks : AfterFingerprint(t)
    \/ \E t \in Tasks : Blocked(t)
    \/ \E t \in Tasks : EvalRule(t)
    \/ \E t \in Tasks : Decide(t)
    \/ \E v \in 1 .. Len(views), rule \in ChainPrimitives : ChainWithRule(v, rule)
    \/ Tick

SpecChain == InitChain /\ [][NextChain]_vars

\* declared continues the declaration order of base
Extends(declared, base) ==
    /\ Len(declared) > Len(base)
    /\ SubSeq(declared, 1, Len(base)) = base

C11_Witness ==
    \E t \in Tasks :
        /\ Returned(t)
        /\ frame[t].view = 3
        /\ Extends(views[3].declared, views[2].declared)
        /\ views[3].rules # views[3].declared
        /\ \E i, j \in Positions(t) :
              /\ i < j
              /\ RuleAt(t, i).priority = RuleAt(t, j).priority
              /\ CalledAt(t, "validate", i)
              /\ CalledAt(t, "validate", j)

\* the view a step has added
NewView == views'[Len(views')]

\* C12: withRule returns a new view whose rule list is the parent's rules
\* followed by the new rules, re-sorted stably by priority; the rule lists of
\* the parent and of every other view are the same before and after the call,
\* for any chain of withRule calls.
C12_WithRuleFrame ==
    [][Len(views') # Len(views) =>
        /\ Len(views') = Len(views) + 1
        /\ \A v \in 1 .. Len(views) : views'[v] = views[v]
        /\ options' = options
        /\ \E v \in 1 .. Len(views) : \E rule \in ChainPrimitives :
              LET joined == views[v].rules \o rule
              IN  /\ SameRules(NewView.rules, joined)
                  /\ SortedByPriority(NewView.rules)
                  /\ TiesAsDeclared(NewView.rules, joined)
                  /\ NewView.eng = views[v].eng]_vars

C12_Witness ==
    /\ Len(views) = 3
    /\ Extends(views[3].declared, views[2].declared)
    /\ Len(views[3].declared) = Len(views[2].declared) + 2
    /\ views[3].rules # views[2].rules \o <<7, 2>>
    /\ \E t \in Tasks : Returned(t) /\ frame[t].view = 2

-----------------------------------------------------------------------------
\* The block cache across the views of one engine.

\* the call of task t looks up the block cache in this step
LooksUp(t) == pc[t] = "fingerprint" /\ pc'[t] \notin {"fingerprint", "rejected"}

\* the call of task u, on another view of the engine of t, has returned a DENY
\* for the fingerprint of t and cached it, and the cache holds its block
CachedOnOtherView(t, u) ==
    /\ Returned(u)
    /\ frame[u].via \in {"local", "remote"}
    /\ frame[u].decision.conclusion = "DENY"
    /\ frame[u].decision.ttl > 0
    /\ EngOf(u) = EngOf(t)
    /\ frame[u].view # frame[t].view
    /\ frame[u].req.fp = frame[t].req.fp
    /\ frame[t].req.fp \in DOMAIN cache[EngOf(t)].data
    /\ cache[EngOf(t)].data[frame[t].req.fp] = frame[u].decision.reason

\* at the lookup of task t, its fingerprint has a live block that a call on
\* another view of the same engine has cached
BlockOfOtherView(t) ==
    /\ LooksUp(t)
    /\ LiveBlock(cache[EngOf(t)], frame[t].req.fp, now)
    /\ \E u \in Tasks \ {t} : CachedOnOtherView(t, u)

\* the call of task t takes the cached-block path with the cached reason
TakesBlock(t) ==
    /\ pc'[t] = "blocked"
    /\ frame'[t].existingBlockReason = cache[EngOf(t)].data[frame[t].req.fp]

\* the call of task t returns the cached DENY in this step
ReturnsBlock(t) ==
    /\ pc'[t] = "returned"
    /\ frame'[t].decision.conclusion = "DENY"
    /\ frame'[t].decision.reason = frame[t].existingBlockReason
    /\ ~Called(t, "validate") /\ ~Called(t, "protect")

\* C13 (as amended): an engine and its withRule views share one block cache:
\* a block cached for fingerprint f by a call on the parent or on any view
\* makes protect on every other view of at most 10 rules return the cached
\* DENY for f while the block is live.
C13_ViewsShareCache ==
    [][\A t \in Tasks :
        /\ (BlockOfOtherView(t) /\ Len(RulesOf(t)) <= MaxRules) => TakesBlock(t)
        /\ (pc[t] = "blocked" /\ pc'[t] # "blocked") => ReturnsBlock(t)]_vars

C13_Witness ==
    \E t \in Tasks :
        /\ Returned(t)
        /\ frame[t].via = "cache"
        /\ frame[t].decision.conclusion = "DENY"
        /\ Len(RulesOf(t)) > 0
        /\ \E u \in Tasks \ {t} :
              /\ CachedOnOtherView(t, u)
              /\ frame[t].decision.reason = frame[u].decision.reason

\* C13 (original): a block cached by a call on the parent or on any view makes
\* protect on every other view of the engine return the cached DENY while the
\* block is live.
C13_Original ==
    [][\A t \in Tasks : BlockOfOtherView(t) => TakesBlock(t)]_vars

\* some other fingerprint has a live block in the cache the call of t uses
OtherBlocked(t) ==
    \E g \in Fingerprints \ {frame[t].req.fp} : LiveBlock(cache[EngOf(t)], g, now)

\* C16: a cached block for fingerprint f never makes protect return a cached
\* DENY for a request with another fingerprint, nor for f once now is greater
\* than or equal to the stored expiry: at the lookup such a request finds no
\* block and (the rule count allowing) goes on to the rule loop.
C16_BlockOnlyForItsFingerprint ==
    [][\A t \in Tasks :
        (LooksUp(t) /\ ~LiveBlock(cache[EngOf(t)], frame[t].req.fp, now)) =>
            /\ pc'[t] # "blocked"
            /\ frame'[t].via # "cache"
            /\ Len(RulesOf(t)) <= MaxRules =>
                   /\ frame'[t].existingBlockReason = NoReason
                   /\ pc'[t] = LoopPc(RulesOf(t), frame'[t].idx)]_vars

C16_Witness ==
    \E t \in Tasks :
        /\ Returned(t)
        /\ OtherBlocked(t)
        /\ Called(t, "cache.get")
        /\ frame[t].existingBlockReason = NoReason
        /\ Called(t, "protect")
        /\ now > 0
        /\ written[EngOf(t)][frame[t].req.fp] = Write("remote")

-----------------------------------------------------------------------------
\* A client whose report fails: it throws, or the promise it returns rejects.

\* options.rules of the engine
FaultConfigs ==
    { << <<6>>, <<4>> >>,
      << <<1>>, <<5>> >>,
      ElevenRules }

FaultRequests == {WithReports(FullRequest("f1"), outcome) : outcome \in ReportOutcomes}

InitFaults ==
    /\ \E cfg \in FaultConfigs : options = <<[rules |-> cfg, characteristics |-> <<"ip.src">>]>>
    /\ views = <<[eng |-> 1, rules |-> RootRules(options[1].rules),
                  declared |-> Flat(options[1].rules)]>>
    /\ ruleChars = [id \in RuleIds |-> RuleObj(id).characteristics]
    /\ cache = <<NewCache>>
    /\ now = 0
    /\ requests = FaultRequests
    /\ pc = <<"idle">>
    /\ frame = <<IdleFrame>>
    /\ calls = << <<>> >>
    /\ rpc = << <<>> >>
    /\ written = <<NoWrites>>
    /\ ret = NoCall

NextFaults ==
    \/ \E t \in Tasks, v \in 1 .. Len(views), req \in requests : Start(t, v, req)
    \/ \E t \in Tasks : AfterFingerprint(t)
    \/ \E t \in Tasks : Blocked(t)
    \/ \E t \in Tasks : EvalRule(t)
    \/ \E t \in Tasks : Decide(t)
    \/ Tick

SpecFaults == InitFaults /\ [][NextFaults]_vars

\* the call of t has ended: protect returned, or its promise rejected
Ended(t) == pc[t] \in {"returned", "rejected"}

\* the call of t made a client.report call that failed
ReportFailed(t) ==
    /\ frame[t].req.reports # "ok"
    /\ \E k \in 1 .. Len(rpc[t]) : rpc[t][k].op = "report"

\* the last call the call of t made on the client
LastRpc(t) == rpc[t][Len(rpc[t])]

\* C14: the decision protect returns is the same whether each client.report
\* call made during the call succeeds or fails (throws or rejects): a call
\* whose report failed still returns, and returns the decision it built: the
\* one it reported when the report was its last call on the client, the one
\* client.decide returned otherwise.
C14_ReportFailureNotSurfaced ==
    \A t \in Tasks :
        (Ended(t) /\ ReportFailed(t) /\ frame[t].via # "generateFingerprint") =>
            /\ Returned(t)
            /\ frame[t].decision =
                  IF LastRpc(t).op = "report" THEN LastRpc(t).decision
                  ELSE RemoteDecision(frame[t].answer, RulesOf(t))

-----------------------------------------------------------------------------
\* Requests whose body cannot be read: context.getBody() resolves to undefined.

\* options.rules of the engine
BodyConfigs ==
    { << <<5>>, <<4>>, <<1>> >>,
      << <<6>>, <<DryRunSensitiveInfo>> >>,
      << <<1>> >> }

\* an email and a user-agent header, and no body
NoBodyRequest(fp) == Request(fp, "ok", TRUE, TRUE, FALSE, AnyVerdicts, AnyAnswer)

BodyRequests == {NoBodyRequest("f1"), AbsentRequest("f1", FALSE)}

InitBody ==
    /\ \E cfg \in BodyConfigs : options = <<[rules |-> cfg, characteristics |-> <<"ip.src">>]>>
    /\ views = <<[eng |-> 1, rules |-> RootRules(options[1].rules),
                  declared |-> Flat(options[1].rules)]>>
    /\ ruleChars = [id \in RuleIds |-> RuleObj(id).characteristics]
    /\ cache = <<NewCache>>
    /\ now = 0
    /\ requests = BodyRequests
    /\ pc = <<"idle">>
    /\ frame = <<IdleFrame>>
    /\ calls = << <<>> >>
    /\ rpc = << <<>> >>
    /\ written = <<NoWrites>>
    /\ ret = NoCall

NextBody ==
    \/ \E t \in Tasks, v \in 1 .. Len(views), req \in requests : Start(t, v, req)
    \/ \E t \in Tasks : AfterFingerprint(t)
    \/ \E t \in Tasks : Blocked(t)
    \/ \E t \in Tasks : EvalRule(t)
    \/ \E t \in Tasks : Decide(t)
    \/ Tick

SpecBody == InitBody /\ [][NextBody]_vars

\* protect of the sensitive-info rule at position i has settled, having found
\* no body
NoBody(t, i) ==
    /\ RuleAt(t, i).type = "SENSITIVE_INFO"
    /\ ~frame[t].req.body
    /\ CalledAt(t, "protect", i)
    /\ ~(pc[t] = "rules" /\ frame[t].idx = i)
    /\ ~CalledAt(t, "error", i)

\* the result is an ERROR, and no DENY is returned with its reason
NoBodyIsError(t, i) ==
    /\ frame[t].results[i].state = "NOT_RUN"
    /\ frame[t].results[i].conclusion = "ERROR"
    /\ frame[t].results[i].reason.type = "ERROR"
    /\ Past(t, i)
    /\ Returned(t) =>
          ~( /\ frame[t].decision.conclusion = "DENY"
             /\ frame[t].decision.reason = frame[t].results[i].reason )
    /\ ~LiveDenied(t, i)
    /\ ~DryRunDenied(t, i)

\* C17 (as amended): when getBody yields no body, the sensitive-info rule's
\* result has conclusion ERROR (not DENY), protect does not return DENY because
\* of that rule whatever its mode, and the rules after it are still evaluated,
\* up to the first LIVE rule that yields DENY.
C17_NoBodyFailsOpen ==
    \A t \in Tasks : \A i \in Positions(t) :
        NoBody(t, i) => NoBodyIsError(t, i) /\ LaterRulesRun(t, i, TRUE)

C17_Witness ==
    \E t \in Tasks : \E i \in Positions(t) :
        /\ NoBody(t, i)
        /\ RuleAt(t, i).mode = "LIVE"
        /\ Returned(t)
        /\ frame[t].decision.conclusion = "DENY"
        /\ \E j \in Positions(t) : j > i /\ CalledAt(t, "protect", j)

\* C17 (original): ... and the remaining rules are still evaluated.
C17_Original ==
    \A t \in Tasks : \A i \in Positions(t) :
        NoBody(t, i) => NoBodyIsError(t, i) /\ LaterRulesRun(t, i, FALSE)

-----------------------------------------------------------------------------
\* Two protect calls in flight on one engine.

\* options.rules of the engine
ConcConfigs == { << <<5>>, <<4>> >> }

\* what the client answers
ConcAnswers == {Answer(TRUE, "ALLOW", 0, "none"), Answer(TRUE, "DENY", MaxRemoteTtl, "none")}

ConcRequests ==
    {Request("f1", "ok", TRUE, TRUE, TRUE, AnyVerdicts, remote) : remote \in ConcAnswers}

InitConc ==
    /\ \E cfg \in ConcConfigs : options = <<[rules |-> cfg, characteristics |-> <<"ip.src">>]>>
    /\ views = <<[eng |-> 1, rules |-> RootRules(options[1].rules),
                  declared |-> Flat(options[1].rules)]>>
    /\ ruleChars = [id \in RuleIds |-> RuleObj(id).characteristics]
    /\ cache = <<NewCache>>
    /\ now = 0
    /\ requests = ConcRequests
    /\ pc = <<"idle", "idle">>
    /\ frame = <<IdleFrame, IdleFrame>>
    /\ calls = << <<>>, <<>> >>
    /\ rpc = << <<>>, <<>> >>
    /\ written = <<NoWrites>>
    /\ ret = NoCall

NextConc ==
    \/ \E t \in Tasks, v \in 1 .. Len(views), req \in requests : Start(t, v, req)
    \/ \E t \in Tasks : AfterFingerprint(t)
    \/ \E t \in Tasks : Blocked(t)
    \/ \E t \in Tasks : EvalRule(t)
    \/ \E t \in Tasks : Decide(t)
    \/ Tick

SpecConc == InitConc /\ [][NextConc]_vars

-----------------------------------------------------------------------------
\* Two callers of one engine and its views, one call at a time.

\* options.rules of the engine
SharedConfigs == { << <<5>>, <<4>> >>, TenRules }

\* protect is called while no other call is in flight
StartAlone(t, v, req) ==
    /\ \A u \in Tasks \ {t} : pc[u] \in {"idle", "returned", "rejected"}
    /\ Start(t, v, req)

InitShared ==
    /\ \E cfg \in SharedConfigs : options = <<[rules |-> cfg, characteristics |-> <<"ip.src">>]>>
    /\ views = <<[eng |-> 1, rules |-> RootRules(options[1].rules),
                  declared |-> Flat(options[1].rules)]>>
    /\ ruleChars = [id \in RuleIds |-> RuleObj(id).characteristics]
    /\ cache = <<NewCache>>
    /\ now = 0
    /\ requests = ConcRequests
    /\ pc = <<"idle", "idle">>
    /\ frame = <<IdleFrame, IdleFrame>>
    /\ calls = << <<>>, <<>> >>
    /\ rpc = << <<>>, <<>> >>
    /\ written = <<NoWrites>>
    /\ ret = NoCall

NextShared ==
    \/ \E t \in Tasks, v \in 1 .. Len(views), req \in requests : StartAlone(t, v, req)
    \/ \E t \in Tasks : AfterFingerprint(t)
    \/ \E t \in Tasks : Blocked(t)
    \/ \E t \in Tasks : EvalRule(t)
    \/ \E t \in Tasks : Decide(t)
    \/ \E v \in 1 .. Len(views), rule \in Primitives : WithRule(v, rule)
    \/ Tick

SpecShared == InitShared /\ [][NextShared]_vars

\* the step on which the call of t returns a LIVE local DENY
ReturnsLocalDeny(t) ==
    pc[t] = "rules" /\ pc'[t] = "returned" /\ frame'[t].via = "local"

\* that step stores (f, reason, now + ttl) when ttl > 0 and nothing otherwise
StoresBlock(t) ==
    LET decision == frame'[t].decision
        fp == frame[t].req.fp
    IN  IF decision.ttl > 0
        THEN /\ fp \in DOMAIN cache'[EngOf(t)].data
             /\ cache'[EngOf(t)].data[fp] = decision.reason
             /\ cache'[EngOf(t)].expires[fp] = now + decision.ttl
        ELSE cache' = cache

\* the call of t is at its cache check
ChecksCache(t) == LooksUp(t) /\ Len(RulesOf(t)) <= MaxRules

\* a call that was past its cache check stores a block of its own for fp
Overwrites(u, fp) ==
    /\ pc[u] \in {"rules", "decide"}
    /\ pc'[u] = "returned"
    /\ frame[u].req.fp = fp

\* a cache check finds the entry of fp expired and removes it
Evicts(u, fp) ==
    /\ ChecksCache(u)
    /\ frame[u].req.fp = fp
    /\ ~LiveBlock(cache[EngOf(u)], fp, now)

\* the entry of fp in the cache of engine e, or none
Entry(c, fp) ==
    IF fp \in DOMAIN c.data THEN <<c.data[fp], c.expires[fp]>> ELSE <<>>

\* C15 (as amended): a protect call that returns a LIVE local DENY with
\* ttl > 0 for fingerprint f leaves (f, reason, now + ttl) in the block cache,
\* and one with ttl = 0 leaves the cache unchanged; every later protect call
\* for f that checks the cache while the cache holds a live entry for f
\* returns DENY from the cache without invoking any local rule; the entry
\* changes only when a concurrent call that was already past its cache check
\* stores its own block for f (last writer wins), or when a cache check finds
\* it expired.
C15_LocalDenyCached ==
    [][\A t \in Tasks :
        /\ ReturnsLocalDeny(t) => StoresBlock(t)
        /\ (ChecksCache(t) /\ LiveBlock(cache[EngOf(t)], frame[t].req.fp, now)) =>
              TakesBlock(t)
        /\ (pc[t] = "blocked" /\ pc'[t] # "blocked") => ReturnsBlock(t)
        /\ \A e \in Engines : \A fp \in Fingerprints :
              (Entry(cache[e], fp) # <<>> /\ Entry(cache'[e], fp) # Entry(cache[e], fp)) =>
                  \E u \in Tasks :
                      /\ pc[u] # "idle"
                      /\ EngOf(u) = e
                      /\ Overwrites(u, fp) \/ Evicts(u, fp)]_vars

\* a call that has returned a LIVE local DENY for fp whose ttl has not run out
LocalDenyBefore(t) ==
    \E u \in Tasks \ {t} :
        /\ Returned(u)
        /\ frame[u].via = "local"
        /\ EngOf(u) = EngOf(t)
        /\ frame[u].req.fp = frame[t].req.fp
        /\ now < frame[u].decision.ttl

C15_Witness ==
    \E t \in Tasks :
        /\ Returned(t)
        /\ frame[t].via = "cache"
        /\ ~Called(t, "validate")
        /\ LocalDenyBefore(t)
        /\ frame[t].decision.reason.type = "BOT"
        /\ now > 0

\* C15 (original): ... every later protect call for f that checks the cache
\* before that expiry, in any interleaving, returns DENY from the cache.
C15_Original ==
    [][\A t \in Tasks :
        /\ ReturnsLocalDeny(t) => StoresBlock(t)
        /\ (ChecksCache(t) /\ LocalDenyBefore(t)) => TakesBlock(t)
        /\ (pc[t] = "blocked" /\ pc'[t] # "blocked") => ReturnsBlock(t)]_vars

-----------------------------------------------------------------------------
\* The rule constructors, called with a list of option objects.

Constructors ==
    {"tokenBucket", "fixedWindow", "slidingWindow", "sensitiveInfo", "validateEmail",
     "detectBot", "shield"}

\* opt.allow and opt.deny: not set, an array of strings, an array with other values
Lists == {"undefined", "strings", "others"}

\* opt.mode: "LIVE", or not set
Modes == {"LIVE", "undefined"}

Option(mode, allow, deny) == [object |-> TRUE, mode |-> mode, allow |-> allow, deny |-> deny]

\* the first parameter of a call without arguments
UndefinedOption ==
    [object |-> FALSE, mode |-> "undefined", allow |-> "undefined", deny |-> "undefined"]

\* {}
EmptyOption == Option("undefined", "undefined", "undefined")

\* { allow: [] }
AllowNone == Option("undefined", "strings", "undefined")

Options == {Option(mode, allow, deny) : mode \in Modes, allow \in Lists, deny \in Lists}

RECURSIVE OptionLists(_)
\* the argument lists of at most n option objects
OptionLists(n) ==
    IF n = 0 THEN {<<>>}
    ELSE OptionLists(n - 1)
         \cup {Append(opts, opt) : opts \in {l \in OptionLists(n - 1) : Len(l) = n - 1},
                                   opt \in Options}

\* the rate limit constructors return at once when options is undefined
ReturnsEmpty(name, opts) ==
    name \in {"tokenBucket", "fixedWindow", "slidingWindow"} /\ opts = <<>>

\* [options ?? default, ...additionalOptions]; sensitiveInfo has no default
Iterated(name, opts) ==
    IF opts # <<>> THEN opts
    ELSE CASE name = "detectBot"     -> <<AllowNone>>
           [] name = "sensitiveInfo" -> <<UndefinedOption>>
           [] OTHER                  -> <<EmptyOption>>

NeverBoth(opt) == FALSE

\* typeof opt.allow !== "undefined" && typeof opt.deny !== "undefined"
BothAllowAndDeny(opt) == opt.allow # "undefined" /\ opt.deny # "undefined"

\* the error the loop body throws for opt, or "" when it builds a rule
\* (detectBot names allow in the error of a deny list too; the backquotes
\* around allow in the message are left out)
OptionError(name, opt) ==
    IF ~opt.object THEN "TypeError"
    ELSE CASE name = "sensitiveInfo" ->
                IF BothAllowAndDeny(opt)
                THEN "Both allow and deny cannot be provided to sensitiveInfo"
                ELSE ""
           [] name = "detectBot" ->
                IF BothAllowAndDeny(opt)
                THEN "Both allow and deny cannot be provided to detectBot"
                ELSE IF opt.allow = "others" \/ opt.deny = "others"
                     THEN "all values in allow must be a string"
                     ELSE ""
           [] OTHER -> ""

\* the rule the loop body pushes for opt
BuildRule(name, opt) ==
    CASE name = "tokenBucket"   -> tokenBucket(opt.mode, UndefinedChars)
      [] name = "fixedWindow"   -> fixedWindow(opt.mode, UndefinedChars)
      [] name = "slidingWindow" -> slidingWindow(opt.mode, UndefinedChars)
      [] name = "sensitiveInfo" -> sensitiveInfo(opt.mode)
      [] name = "validateEmail" -> validateEmail(opt.mode)
      [] name = "detectBot"     -> detectBot(opt.mode)
      [] OTHER                  -> shield(opt.mode)

Built(threw, error, rules) == [threw |-> threw, error |-> error, rules |-> rules]

\* what constructor name does with the arguments opts: the rules it returns,
\* or the error of the first option object that throws
Construct(name, opts) ==
    LET list == Iterated(name, opts)
        bad == {i \in 1 .. Len(list) : OptionError(name, list[i]) # ""}
        first == CHOOSE i \in bad : \A j \in bad : i <= j
    IN  IF ReturnsEmpty(name, opts) THEN Built(FALSE, "", <<>>)
        ELSE IF bad # {} THEN Built(TRUE, OptionError(name, list[first]), <<>>)
        ELSE Built(FALSE, "", [i \in 1 .. Len(list) |-> BuildRule(name, list[i])])

\* the option objects one call gets, at most
MaxOptions == 2

\* the call has not run yet
Pending == Built(FALSE, "pending", <<>>)

\* the constructor runs
Build ==
    /\ ret.result = Pending
    /\ ret' = [ret EXCEPT !.result = Construct(ret.op, ret.args)]
    /\ UNCHANGED <<views, options, ruleChars, cache, now, requests, pc, frame, calls, rpc,
                   written>>

InitBuild ==
    /\ options = <<[rules |-> <<>>, characteristics |-> <<"ip.src">>]>>
    /\ views = <<[eng |-> 1, rules |-> <<>>, declared |-> <<>>]>>
    /\ ruleChars = [id \in RuleIds |-> RuleObj(id).characteristics]
    /\ cache = <<NewCache>>
    /\ now = 0
    /\ requests = {}
    /\ pc = <<"idle">>
    /\ frame = <<IdleFrame>>
    /\ calls = << <<>> >>
    /\ rpc = << <<>> >>
    /\ written = <<NoWrites>>
    /\ \E name \in Constructors, opts \in OptionLists(MaxOptions) :
          ret = [op |-> name, args |-> opts, result |-> Pending]

NextBuild == Build

SpecBuild == InitBuild /\ [][NextBuild]_vars

\* the constructor has run
HasBuilt == ret.op \in Constructors /\ ret.result # Pending

\* the constructors that build a rule from defaults
AlwaysBuild == {"validateEmail", "detectBot", "sensitiveInfo", "shield"}

\* C18: called with zero option objects, validateEmail, detectBot,
\* sensitiveInfo and shield each return at least one rule built from defaults,
\* tokenBucket, fixedWindow and slidingWindow return an empty sequence, and
\* none of them fails.
C18_ZeroOptions ==
    (HasBuilt /\ ret.args = <<>>) =>
        /\ ~ret.result.threw
        /\ IF ret.op \in AlwaysBuild
           THEN /\ Len(ret.result.rules) >= 1
                /\ \A i \in 1 .. Len(ret.result.rules) : ret.result.rules[i].mode = "DRY_RUN"
           ELSE ret.result.rules = <<>>

\* some option object of the call sets both allow and deny
SetsBoth(opts) ==
    \E i \in 1 .. Len(opts) : opts[i].allow # "undefined" /\ opts[i].deny # "undefined"

\* C19: constructing a BOT or a SENSITIVE_INFO rule from any option object
\* (the first or an additional one) that sets both allow and deny fails with a
\* construction error, and no rules are returned.
C19_AllowAndDenyRejected ==
    (HasBuilt /\ ret.op \in {"detectBot", "sensitiveInfo"} /\ SetsBoth(ret.args)) =>
        /\ ret.result.threw
        /\ ret.result.error # ""
        /\ ret.result.rules = <<>>

C19_Witness ==
    /\ HasBuilt
    /\ ret.op = "sensitiveInfo"
    /\ Len(ret.args) = 2
    /\ ~SetsBoth(<<ret.args[1]>>)
    /\ SetsBoth(<<ret.args[2]>>)
    /\ ret.result.threw
    /\ ret.result.error = "Both allow and deny cannot be provided to sensitiveInfo"

-----------------------------------------------------------------------------
\* The Cache class on its own: get and set called directly, and the clock.

\* the longest time to live of an entry
MaxCacheTtl == 2

\* the reasons stored
CacheValues == {Reason("BOT", 4, "flagged"), Reason("REMOTE", 0, "DENY")}

\* the clock of the cache on its own runs this far
MaxCacheNow == 2

\* a call on the cache: what it returned, the clock value it read, and the
\* call made before it
Last(call) ==
    IF call.op = "" THEN call
    ELSE [op |-> call.op, args |-> call.args, result |-> call.result, at |-> call.at]

CacheCall(op, args, result, at, before) ==
    [op |-> op, args |-> args, result |-> result, at |-> at, prev |-> Last(before)]

\* cache.get(key)
Get(key) ==
    /\ ret' = CacheCall("get", <<key>>, CacheGet(cache[1], key, now), now, ret)
    /\ cache' = <<CacheAfterGet(cache[1], key, now)>>
    /\ UNCHANGED <<views, options, ruleChars, now, requests, pc, frame, calls, rpc, written>>

\* cache.set(key, value, nowInSeconds() + ttl)
Set(key, value, ttl) ==
    /\ ret' = CacheCall("set", <<key, value, now + ttl>>, NoReason, now, ret)
    /\ cache' = <<CacheSet(cache[1], key, value, now + ttl)>>
    /\ written' = [written EXCEPT ![1][key] = Write("set")]
    /\ UNCHANGED <<views, options, ruleChars, now, requests, pc, frame, calls, rpc>>

\* cache.ttl(key)
Ttl(key) ==
    /\ ret' = CacheCall("ttl", <<key>>, CacheTtl(cache[1], key, now), now, ret)
    /\ UNCHANGED <<views, options, ruleChars, cache, now, requests, pc, frame, calls, rpc,
                   written>>

\* nowInSeconds() advances, past the expiry of the entries
Elapse ==
    /\ now < MaxCacheNow
    /\ now' = now + 1
    /\ UNCHANGED <<views, options, ruleChars, cache, requests, pc, frame, calls, rpc,
                   written, ret>>

InitCache ==
    /\ options = <<[rules |-> <<>>, characteristics |-> <<"ip.src">>]>>
    /\ views = <<[eng |-> 1, rules |-> <<>>, declared |-> <<>>]>>
    /\ ruleChars = [id \in RuleIds |-> RuleObj(id).characteristics]
    /\ cache = <<NewCache>>
    /\ now = 0
    /\ requests = {}
    /\ pc = <<"idle">>
    /\ frame = <<IdleFrame>>
    /\ calls = << <<>> >>
    /\ rpc = << <<>> >>
    /\ written = <<NoWrites>>
    /\ ret = NoCall

NextCache ==
    \/ \E key \in Fingerprints : Get(key)
    \/ \E key \in Fingerprints, value \in CacheValues, ttl \in 1 .. MaxCacheTtl :
          Set(key, value, ttl)
    \/ \E key \in Fingerprints : Ttl(key)
    \/ Elapse

SpecCache == InitCache /\ [][NextCache]_vars

\* the step is a cache.get(key)
GetStep(key) == ret'.op = "get" /\ ret'.args = <<key>> /\ now' = now

\* C20: Cache.get(k) returns the stored reason exactly when the stored expiry
\* is strictly greater than now; otherwise it returns absent and removes the
\* entry of k; it never changes the entry of another key.
C20_CacheGet ==
    [][\A key \in Fingerprints :
        GetStep(key) =>
            /\ IF LiveBlock(cache[1], key, now)
               THEN /\ ret'.result = cache[1].data[key]
                    /\ Entry(cache'[1], key) = Entry(cache[1], key)
               ELSE /\ ret'.result = NoReason
                    /\ key \notin DOMAIN cache'[1].data
                    /\ key \notin DOMAIN cache'[1].expires
            /\ \A other \in Fingerprints \ {key} :
                  /\ Entry(cache'[1], other) = Entry(cache[1], other)
                  /\ (other \in DOMAIN cache'[1].expires) = (other \in DOMAIN cache[1].expires)]_vars

C20_Witness ==
    /\ ret.op = "get"
    /\ ret.result = NoReason
    /\ written[1][ret.args[1]] = Write("set")
    /\ ret.args[1] \notin DOMAIN cache[1].data
    /\ \E other \in Fingerprints \ {ret.args[1]} :
          /\ other \in DOMAIN cache[1].data
          /\ cache[1].expires[other] <= now

\* the step is a cache.ttl(key)
TtlStep(key) == ret'.op = "ttl" /\ ret'.args = <<key>> /\ now' = now

\* the expiry stored for key, or the clock value when there is none
ExpiryOr(c, key, t) == IF key \in DOMAIN c.expires THEN c.expires[key] ELSE t

Max(a, b) == IF a >= b THEN a ELSE b

\* C21: Cache.ttl(k) returns max(0, expiry - now) for every key and every
\* clock value (0 for a missing key and for an expired entry that has not
\* been evicted yet), and it removes or changes no cache entry.
C21_TtlNeverNegative ==
    [][\A key \in Fingerprints :
        TtlStep(key) =>
            /\ ret'.result = Max(0, ExpiryOr(cache[1], key, now) - now)
            /\ cache' = cache]_vars

\* the last two calls on the cache were get(k) for the same k
GetTwice == ret.op = "get" /\ ret.prev.op = "get" /\ ret.prev.args = ret.args

\* C22 (as amended): two successive calls of blockCache.get(k) with no set in
\* between return the same value when the clock has not advanced between
\* them; when it has, the second returns the same value or absent (the entry
\* expired and was lazily evicted); an absent result is never followed by a
\* present one without a set.
C22_GetTwice ==
    GetTwice =>
        /\ ret.at = ret.prev.at => ret.result = ret.prev.result
        /\ ret.result # NoReason => ret.result = ret.prev.result
        /\ ret.prev.result = NoReason => ret.result = NoReason

C22_Witness ==
    /\ GetTwice
    /\ ret.prev.result # NoReason
    /\ ret.result = ret.prev.result
    /\ ret.at > ret.prev.at
    /\ \E other \in Fingerprints \ {ret.args[1]} : other \in DOMAIN cache[1].data

\* C22 (original): two successive calls of get(k) with no set in between
\* return the same value, or both return absent.
C22_Original == GetTwice => ret.result = ret.prev.result

-----------------------------------------------------------------------------
\* The remote decision.

\* the step on which client.decide succeeds and the call of t returns
DecideReturns(t) ==
    pc[t] = "decide" /\ pc'[t] = "returned" /\ frame'[t].answer.ok

\* the decision is the one the client gave
ClientsDecision(t) ==
    /\ frame'[t].decision.conclusion = frame'[t].answer.conclusion
    /\ frame'[t].decision.ttl = frame'[t].answer.ttl
    /\ frame'[t].decision = RemoteDecision(frame'[t].answer, RulesOf(t))
    /\ frame'[t].via = "remote"

\* C23: when client.decide succeeds, protect returns exactly the client's
\* decision; it stores (fingerprint, decision.reason, now + decision.ttl) in
\* the block cache if and only if the decision is DENY with ttl > 0, and
\* leaves the cache unchanged for ALLOW, CHALLENGE, ERROR and DENY with ttl 0.
C23_RemoteDecisionCached ==
    [][\A t \in Tasks :
        DecideReturns(t) =>
            /\ ClientsDecision(t)
            /\ IF frame'[t].answer.conclusion = "DENY" /\ frame'[t].answer.ttl > 0
               THEN /\ Entry(cache'[EngOf(t)], frame[t].req.fp) =
                          <<frame'[t].decision.reason, now + frame'[t].answer.ttl>>
                    /\ \A other \in Fingerprints \ {frame[t].req.fp} :
                          /\ Entry(cache'[EngOf(t)], other) = Entry(cache[EngOf(t)], other)
                          /\ (other \in DOMAIN cache'[EngOf(t)].expires)
                                = (other \in DOMAIN cache[EngOf(t)].expires)
               ELSE cache' = cache]_vars

C23_Witness ==
    \E t \in Tasks :
        /\ Returned(t)
        /\ frame[t].via = "remote"
        /\ frame[t].decision.conclusion = "DENY"
        /\ frame[t].decision.ttl > 0
        /\ now > 0
        /\ Entry(cache[EngOf(t)], frame[t].req.fp) =
              <<frame[t].decision.reason, now + frame[t].decision.ttl>>
        /\ \E other \in Fingerprints \ {frame[t].req.fp} :
              other \in DOMAIN cache[EngOf(t)].data

-----------------------------------------------------------------------------
\* The rule objects across calls and engines.

\* the characteristics field of rule id as its constructor set it
ConstructedChars(id) == RuleObj(id).characteristics

\* C24: the configured rule list is read-only after construction: after any
\* sequence of protect calls every configured rule object has the field
\* values (characteristics included) it had when the engine was constructed.
C24_RulesReadOnly ==
    \A id \in RuleIds : ruleChars[id] = ConstructedChars(id)

\* Two engines configured with the same rule objects and different
\* engine-level characteristics.

\* options.rules of both engines
EnginesConfigs == { << <<3>>, <<7>>, <<6>> >> }

\* options.characteristics of the two engines
EnginesCharacteristics == << <<"ip.src">>, <<"userId">> >>

InitEngines ==
    /\ \E cfg \in EnginesConfigs :
          options = [e \in 1 .. 2 |->
                        [rules |-> cfg, characteristics |-> EnginesCharacteristics[e]]]
    /\ views = [e \in 1 .. 2 |-> [eng |-> e, rules |-> RootRules(options[e].rules),
                                  declared |-> Flat(options[e].rules)]]
    /\ ruleChars = [id \in RuleIds |-> RuleObj(id).characteristics]
    /\ cache = <<NewCache, NewCache>>
    /\ now = 0
    /\ requests = {FullRequest("f1")}
    /\ pc = <<"idle">>
    /\ frame = <<IdleFrame>>
    /\ calls = << <<>> >>
    /\ rpc = << <<>> >>
    /\ written = <<NoWrites, NoWrites>>
    /\ ret = NoCall

NextEngines ==
    \/ \E t \in Tasks, v \in 1 .. Len(views), req \in requests : Start(t, v, req)
    \/ \E t \in Tasks : AfterFingerprint(t)
    \/ \E t \in Tasks : Blocked(t)
    \/ \E t \in Tasks : EvalRule(t)
    \/ \E t \in Tasks : Decide(t)
    \/ Tick

SpecEngines == InitEngines /\ [][NextEngines]_vars

\* the rules a client call of engine e is to receive: the sorted list, each
\* rate limit rule without characteristics of its own carrying those of e
ExpectedRules(rules, e) ==
    [i \in 1 .. Len(rules) |->
        [id |-> rules[i],
         characteristics |->
            IF isRateLimitRule(RuleObj(rules[i])) /\ ConstructedChars(rules[i]) = UndefinedChars
            THEN options[e].characteristics
            ELSE ConstructedChars(rules[i])]]

\* C25: in every protect call with at most 10 rules, the rule list passed to
\* client.report and client.decide is the list sorted at entry in which every
\* RATE_LIMIT rule constructed without characteristics carries the
\* engine-level characteristics of the engine running the call and every rule
\* with its own characteristics keeps them, also when the same rule objects
\* are configured in two engines with different engine-level characteristics.
C25_RulesSentToClient ==
    \A t \in Tasks :
        (pc[t] # "idle" /\ Len(RulesOf(t)) <= MaxRules) =>
            \A k \in 1 .. Len(rpc[t]) : rpc[t][k].rules = ExpectedRules(RulesOf(t), EngOf(t))

-----------------------------------------------------------------------------
\* validate and protect of the local rules within one call.

\* the places in the log of call t where op was invoked on the rule at idx
Invocations(t, op, idx) ==
    {k \in 1 .. Len(calls[t]) : calls[t][k] = Event(op, idx)}

\* C26: within one protect call, a local rule's protect is invoked only after
\* that rule's validate returned without throwing in the same call; if
\* validate throws, the rule's protect is never invoked; each rule's validate
\* and protect are invoked at most once per call; and a rule without a
\* validate/protect pair keeps the result NOT_RUN / ALLOW / ttl 0.
C26_ValidateBeforeProtect ==
    \A t \in Tasks : \A i \in Positions(t) :
        LET rule == RuleObj(RulesOf(t)[i])
            validates == Invocations(t, "validate", i)
            protects == Invocations(t, "protect", i)
        IN  /\ Cardinality(validates) <= 1
            /\ Cardinality(protects) <= 1
            /\ \A k \in protects :
                  /\ \E j \in validates : j < k
                  /\ ~ValidateThrows(rule, frame[t].req)
            /\ (validates # {} /\ ValidateThrows(rule, frame[t].req)) => protects = {}
            /\ ~isLocalRule(rule) =>
                  /\ validates = {} /\ protects = {}
                  /\ frame[t].results[i].state = "NOT_RUN"
                  /\ frame[t].results[i].conclusion = "ALLOW"
                  /\ frame[t].results[i].ttl = 0

C26_Witness ==
    \E t \in Tasks :
        /\ pc[t] = "returned"
        /\ \E i \in Positions(t) :
              /\ ~isLocalRule(RuleObj(RulesOf(t)[i]))
              /\ frame[t].results[i].state = "NOT_RUN"
        /\ \E i \in Positions(t) :
              /\ ValidateThrows(RuleObj(RulesOf(t)[i]), frame[t].req)
              /\ Invocations(t, "validate", i) # {}
              /\ Invocations(t, "protect", i) = {}
              /\ frame[t].results[i].conclusion = "ERROR"

-----------------------------------------------------------------------------
\* Denials of DRY_RUN rules.

\* the client.report calls of call t so far
Reports(t) == {k \in 1 .. Len(rpc[t]) : rpc[t][k].op = "report"}

\* the rule at the loop position of call t yields DENY in this step
YieldsDeny(t) ==
    /\ pc[t] = "rules"
    /\ frame[t].idx \in DOMAIN frame'[t].results
    /\ frame[t].results[frame[t].idx].state = "NOT_RUN"
    /\ frame'[t].results[frame[t].idx].conclusion = "DENY"

\* the one report of the step: a DENY decision with the rule's reason and ttl,
\* the results so far and the rules of the call; the only other client call
\* of the step is the client.decide that follows the last rule
ReportsDenial(t) ==
    LET idx == frame[t].idx
        result == frame'[t].results[idx]
        first == Len(rpc[t]) + 1
    IN  /\ Len(rpc'[t]) \in {first, first + 1}
        /\ SubSeq(rpc'[t], 1, Len(rpc[t])) = rpc[t]
        /\ rpc'[t][first] =
              Rpc("report",
                  Decision("DENY", result.ttl, result.reason,
                           [frame[t].results EXCEPT ![idx] = result]),
                  RuleSnapshot(RulesOf(t), ruleChars))
        /\ Len(rpc'[t]) = first + 1 =>
              rpc'[t][first + 1].op = "decide" /\ pc'[t] = "decide"

\* the loop goes on: to the protect of a later rule, its validate called
\* after the warning, or to client.decide after the last rule
Continues(t) ==
    /\ frame'[t].idx > frame[t].idx
    /\ pc'[t] = LoopPc(RulesOf(t), frame'[t].idx)
    /\ pc'[t] = "rules" =>
          \E k, l \in 1 .. Len(calls'[t]) :
              /\ k < l
              /\ calls'[t][k] = Event("warn.dryrun", frame[t].idx)
              /\ calls'[t][l] = Event("validate", frame'[t].idx)
    /\ pc'[t] = "decide" => rpc'[t][Len(rpc'[t])].op = "decide"
    /\ frame'[t].decision = frame[t].decision
    /\ cache' = cache

\* C27: for each DRY_RUN local rule that yields DENY, protect calls
\* client.report exactly once with a DENY decision carrying that rule's reason
\* and all current rules, logs an override warning, and then continues; when
\* exactly one rule denies in DRY_RUN and client.decide succeeds,
\* client.report is called exactly once in that call and the decision
\* returned is the client's.
C27_DryRunDenial ==
    [][ \A t \in Tasks :
          /\ (YieldsDeny(t) /\ RuleAt(t, frame[t].idx).mode = "DRY_RUN") =>
                /\ ReportsDenial(t)
                /\ \E k \in (Len(calls[t]) + 1) .. Len(calls'[t]) :
                      calls'[t][k] = Event("warn.dryrun", frame[t].idx)
                /\ Cardinality({k \in 1 .. Len(calls'[t]) :
                                  calls'[t][k] = Event("warn.dryrun", frame[t].idx)}) = 1
                /\ Continues(t)
          /\ (DecideReturns(t)
              /\ Cardinality({i \in Positions(t) : DryRunDenied(t, i)}) = 1) =>
                /\ Cardinality({k \in 1 .. Len(rpc'[t]) : rpc'[t][k].op = "report"}) = 1
                /\ frame'[t].decision = RemoteDecision(frame'[t].answer, RulesOf(t))
      ]_vars

C27_Witness ==
    \E t \in Tasks :
        /\ pc[t] = "returned"
        /\ frame[t].via = "remote"
        /\ frame[t].answer.ok
        /\ Cardinality({i \in Positions(t) : DryRunDenied(t, i)}) = 1
        /\ Cardinality(Reports(t)) = 1
        /\ \E k \in 1 .. Len(calls[t]) : calls[t][k].op = "warn.dryrun"

-----------------------------------------------------------------------------
\* Writes of interleaved calls to one cache entry.

\* the step on which call t calls blockCache.set for fp
Sets(t, fp) ==
    /\ pc[t] \in {"rules", "decide"}
    /\ pc'[t] = "returned"
    /\ frame[t].req.fp = fp
    /\ frame'[t].via \in {"local", "remote"}
    /\ frame'[t].decision.conclusion = "DENY"
    /\ frame'[t].decision.ttl > 0

\* the (reason, expiry) pair of that set call
PairSet(t) == <<frame'[t].decision.reason, now + frame'[t].decision.ttl>>

\* C28: when several protect calls for the same fingerprint interleave at
\* their suspension points, each block-cache set is atomic: at every moment
\* the cache entry for the fingerprint is either absent or the (reason,
\* expiry) pair of one single set call, and after all writes it equals the
\* pair written by the last set, even when an earlier write had a later
\* expiry.
C28_LastSetWins ==
    [][\A e \in Engines : \A fp \in Fingerprints :
        /\ DOMAIN cache'[e].data = DOMAIN cache'[e].expires
        /\ \/ Entry(cache'[e], fp) = Entry(cache[e], fp)
           \/ Entry(cache'[e], fp) = <<>>
           \/ \E t \in Tasks : Sets(t, fp) /\ Entry(cache'[e], fp) = PairSet(t)
        /\ \A t \in Tasks :
              (Sets(t, fp) /\ EngOf(t) = e) => Entry(cache'[e], fp) = PairSet(t)
      ]_vars

\* both calls have stored a block for one fingerprint, the local one with
\* the later expiry first, and the entry is the pair of the second
C28_Witness ==
    \E t, u \in Tasks :
        /\ t # u
        /\ pc[t] = "returned" /\ pc[u] = "returned"
        /\ frame[t].req.fp = frame[u].req.fp
        /\ frame[t].via = "local" /\ frame[t].decision.ttl = BotDenyTtl
        /\ frame[u].via = "remote" /\ frame[u].decision.conclusion = "DENY"
        /\ frame[u].decision.ttl > 0 /\ frame[u].decision.ttl < BotDenyTtl
        /\ Entry(cache[EngOf(u)], frame[u].req.fp) # <<>>
        /\ Entry(cache[EngOf(u)], frame[u].req.fp)[1] = frame[u].decision.reason
        /\ Entry(cache[EngOf(u)], frame[u].req.fp)[2] < BotDenyTtl

-----------------------------------------------------------------------------
\* sensitiveInfo: the context window handed to the analyzer.

\* the largest contextWindowSize an option object sets
MaxWindow == 4

\* opt.contextWindowSize: <<>> when the option object sets none
WindowSizes == {<<>>} \cup {<<n>> : n \in 1 .. MaxWindow}

WindowOption(size) == [object |-> TRUE, contextWindowSize |-> size]

RECURSIVE WindowOptionLists(_)
\* the argument lists of 1 .. n option objects
WindowOptionLists(n) ==
    IF n = 1 THEN {<<WindowOption(size)>> : size \in WindowSizes}
    ELSE WindowOptionLists(n - 1)
         \cup {Append(opts, WindowOption(size)) :
                 opts \in {l \in WindowOptionLists(n - 1) : Len(l) = n - 1},
                 size \in WindowSizes}

\* x || 1
OrOne(size) == IF size = <<>> \/ size = <<0>> THEN 1 ELSE size[1]

\* the fourth argument of analyze.detectSensitiveInfo in the protect of the
\* rule built from opts[i]: options.contextWindowSize || 1, options being the
\* first parameter of sensitiveInfo
ContextWindowSize(opts, i) == OrOne(opts[1].contextWindowSize)

\* no call of the analyzer
NoDetect == [idx |-> 0, body |-> FALSE, called |-> FALSE, contextWindowSize |-> 0]

\* protect of the rule built from opts[i]: without a body it returns an error
\* result and the analyzer is not called
DetectSensitiveInfo(opts, i, body) ==
    IF ~body THEN [idx |-> i, body |-> FALSE, called |-> FALSE, contextWindowSize |-> 0]
    ELSE [idx |-> i, body |-> TRUE, called |-> TRUE,
          contextWindowSize |-> ContextWindowSize(opts, i)]

\* the protect of one of the rules sensitiveInfo returned runs
ProtectSensitiveInfo(i, body) ==
    /\ ret.op \in {"sensitiveInfo", "sensitiveInfo.protect"}
    /\ i \in 1 .. Len(ret.args)
    /\ ret' = [op |-> "sensitiveInfo.protect", args |-> ret.args,
               result |-> DetectSensitiveInfo(ret.args, i, body)]
    /\ UNCHANGED <<views, options, ruleChars, cache, now, requests, pc, frame, calls, rpc,
                   written>>

InitWindow ==
    /\ options = <<[rules |-> <<>>, characteristics |-> <<"ip.src">>]>>
    /\ views = <<[eng |-> 1, rules |-> <<>>, declared |-> <<>>]>>
    /\ ruleChars = [id \in RuleIds |-> RuleObj(id).characteristics]
    /\ cache = <<NewCache>>
    /\ now = 0
    /\ requests = {}
    /\ pc = <<"idle">>
    /\ frame = <<IdleFrame>>
    /\ calls = << <<>> >>
    /\ rpc = << <<>> >>
    /\ written = <<NoWrites>>
    /\ \E opts \in WindowOptionLists(MaxOptions) :
          ret = [op |-> "sensitiveInfo", args |-> opts, result |-> NoDetect]

NextWindow == \E i \in 1 .. MaxOptions, body \in BOOLEAN : ProtectSensitiveInfo(i, body)

SpecWindow == InitWindow /\ [][NextWindow]_vars

\* C29: each SENSITIVE_INFO rule built by sensitiveInfo from several option
\* objects calls Analyzer.detectSensitiveInfo with the contextWindowSize of
\* the option object that rule was built from, or 1 when that option object
\* sets none.
C29_OwnContextWindow ==
    (ret.op = "sensitiveInfo.protect" /\ ret.result.called) =>
        LET own == ret.args[ret.result.idx].contextWindowSize
        IN  ret.result.contextWindowSize = (IF own = <<>> THEN 1 ELSE own[1])

-----------------------------------------------------------------------------
\* The request handed to the analyzer: toAnalyzeRequest.

\* the (name, value) pairs a header map holds, at most
MaxHeaders == 3

HeaderNames == {"user-agent", "x-id"}

HeaderValues == {"a", "b"}

RECURSIVE HeaderMaps(_)
\* the header maps of at most n pairs: the pairs in insertion order
HeaderMaps(n) ==
    IF n = 0 THEN {<<>>}
    ELSE HeaderMaps(n - 1)
         \cup {Append(h, <<name, value>>) :
                 h \in {l \in HeaderMaps(n - 1) : Len(l) = n - 1},
                 name \in HeaderNames, value \in HeaderValues}

\* headers.entries(): each (name, value) pair in insertion order, a header
\* with several values once per value
Entries(h) == h

RECURSIVE AssignAll(_, _)
\* for (const [key, value] of entries) headers[key] = value
AssignAll(headers, entries) ==
    IF entries = <<>> THEN headers
    ELSE AssignAll(MapSet(headers, entries[1][1], entries[1][2]), Tail(entries))

\* toAnalyzeRequest(request).headers
toAnalyzeRequest(h) == AssignAll(EmptyMap, Entries(h))

\* the request has not been converted yet
NotConverted == [done |-> FALSE, headers |-> EmptyMap]

ToAnalyzeRequest ==
    /\ ret.op = "toAnalyzeRequest"
    /\ ~ret.result.done
    /\ ret' = [ret EXCEPT !.result = [done |-> TRUE, headers |-> toAnalyzeRequest(ret.args)]]
    /\ UNCHANGED <<views, options, ruleChars, cache, now, requests, pc, frame, calls, rpc,
                   written>>

InitHeaders ==
    /\ options = <<[rules |-> <<>>, characteristics |-> <<"ip.src">>]>>
    /\ views = <<[eng |-> 1, rules |-> <<>>, declared |-> <<>>]>>
    /\ ruleChars = [id \in RuleIds |-> RuleObj(id).characteristics]
    /\ cache = <<NewCache>>
    /\ now = 0
    /\ requests = {}
    /\ pc = <<"idle">>
    /\ frame = <<IdleFrame>>
    /\ calls = << <<>> >>
    /\ rpc = << <<>> >>
    /\ written = <<NoWrites>>
    /\ \E h \in HeaderMaps(MaxHeaders) :
          ret = [op |-> "toAnalyzeRequest", args |-> h, result |-> NotConverted]

NextHeaders == ToAnalyzeRequest

SpecHeaders == InitHeaders /\ [][NextHeaders]_vars

\* the first value of name in the header map h
FirstValue(h, name) ==
    LET at == {i \in 1 .. Len(h) : h[i][1] = name}
    IN  h[CHOOSE i \in at : \A j \in at : i <= j][2]

\* C30: the request handed to the analyzer has its headers flattened into a
\* string-to-string mapping that holds, for every header name with several
\* values, the first value in insertion order.
C30_FirstHeaderValue ==
    (ret.op = "toAnalyzeRequest" /\ ret.result.done) =>
        /\ DOMAIN ret.result.headers = {ret.args[i][1] : i \in 1 .. Len(ret.args)}
        /\ \A name \in DOMAIN ret.result.headers :
              ret.result.headers[name] = FirstValue(ret.args, name)

-----------------------------------------------------------------------------
\* The remote calls of one protect call.

\* the client.decide calls of call t so far
Decides(t) == {k \in 1 .. Len(rpc[t]) : rpc[t][k].op = "decide"}

\* the cache check of call t found no live block
FoundNoBlock(t) == frame[t].existingBlockReason = NoReason

\* C31: every protect call that completes has made at least one remote call
\* (client.report or client.decide), and it calls client.decide at most once,
\* exactly when the rule count is at most 10, the cache check found no live
\* block for the fingerprint, and no LIVE local rule yielded DENY.
C31_RemoteCalls ==
    \A t \in Tasks :
        /\ Cardinality(Decides(t)) <= 1
        /\ Returned(t) =>
              /\ Len(rpc[t]) >= 1
              /\ \A k \in 1 .. Len(rpc[t]) : rpc[t][k].op \in {"report", "decide"}
              /\ Decides(t) # {} <=>
                    /\ Len(RulesOf(t)) <= MaxRules
                    /\ FoundNoBlock(t)
                    /\ \A i \in Positions(t) : ~LiveDenied(t, i)

\* a completed call over ten rules that found no block and asked the client
C31_Witness ==
    \E t \in Tasks :
        /\ Returned(t)
        /\ Cardinality(Decides(t)) = 1
        /\ Len(RulesOf(t)) = MaxRules
        /\ FoundNoBlock(t)

-----------------------------------------------------------------------------
\* Where the entries of the block cache come from.

\* options.rules: a DRY_RUN rule whose DENY has a ttl, before and after LIVE
\* rules
WritesConfigs ==
    { << <<DryRunDetectBot>>, <<5>> >>,
      << <<4>>, <<6>> >>,
      << <<1>>, <<DryRunDetectBot>> >> }

InitWrites ==
    /\ \E cfg \in WritesConfigs : options = <<[rules |-> cfg, characteristics |-> <<"ip.src">>]>>
    /\ views = <<[eng |-> 1, rules |-> RootRules(options[1].rules),
                  declared |-> Flat(options[1].rules)]>>
    /\ ruleChars = [id \in RuleIds |-> RuleObj(id).characteristics]
    /\ cache = <<NewCache>>
    /\ now = 0
    /\ requests = {AbsentRequest("f1", FALSE), FullRequest("f1")}
    /\ pc = <<"idle">>
    /\ frame = <<IdleFrame>>
    /\ calls = << <<>> >>
    /\ rpc = << <<>> >>
    /\ written = <<NoWrites>>
    /\ ret = NoCall

NextWrites ==
    \/ \E t \in Tasks, v \in 1 .. Len(views), req \in requests : Start(t, v, req)
    \/ \E t \in Tasks : AfterFingerprint(t)
    \/ \E t \in Tasks : Blocked(t)
    \/ \E t \in Tasks : EvalRule(t)
    \/ \E t \in Tasks : Decide(t)
    \/ Tick

SpecWrites == InitWrites /\ [][NextWrites]_vars

\* the step on which a LIVE local rule of call t yields DENY with ttl > 0
LiveDenyWithTtl(t) ==
    /\ YieldsDeny(t)
    /\ RuleAt(t, frame[t].idx).mode = "LIVE"
    /\ frame'[t].results[frame[t].idx].ttl > 0
    /\ frame'[t].decision.reason = frame'[t].results[frame[t].idx].reason
    /\ frame'[t].decision.ttl = frame'[t].results[frame[t].idx].ttl

\* the step on which client.decide of call t succeeds with DENY and ttl > 0
RemoteDenyWithTtl(t) ==
    /\ DecideReturns(t)
    /\ frame'[t].answer.conclusion = "DENY"
    /\ frame'[t].answer.ttl > 0
    /\ frame'[t].decision = RemoteDecision(frame'[t].answer, RulesOf(t))

\* the steps that store nothing: a DRY_RUN rule's DENY, a rule's ERROR, an
\* ERROR decision, a hit of the cache
StoresNothing(t) ==
    \/ YieldsDeny(t) /\ RuleAt(t, frame[t].idx).mode = "DRY_RUN"
    \/ /\ pc[t] = "rules"
       /\ \E j \in DOMAIN frame[t].results :
             /\ j \in DOMAIN frame'[t].results
             /\ frame[t].results[j].state = "NOT_RUN"
             /\ frame'[t].results[j].conclusion = "ERROR"
    \/ /\ pc[t] # "returned" /\ pc'[t] = "returned"
       /\ frame'[t].decision.conclusion = "ERROR"
    \/ pc'[t] = "blocked"
    \/ pc[t] = "blocked"

\* C32: in every reachable state, each block-cache entry was written either
\* by a LIVE local rule's DENY with ttl > 0 or by a successful client.decide
\* DENY with ttl > 0, with expiry equal to the clock at the write plus that
\* ttl; a DENY from a DRY_RUN rule, a rule ERROR, an ERROR decision and a
\* cached-block hit never write or extend a cache entry.
C32_CacheProvenance ==
    [][/\ \A e \in Engines : \A fp \in Fingerprints :
            (Entry(cache'[e], fp) # Entry(cache[e], fp) /\ Entry(cache'[e], fp) # <<>>) =>
                \E t \in Tasks :
                    /\ pc[t] # "idle"
                    /\ EngOf(t) = e /\ frame[t].req.fp = fp
                    /\ LiveDenyWithTtl(t) \/ RemoteDenyWithTtl(t)
                    /\ Entry(cache'[e], fp) =
                          <<frame'[t].decision.reason, now + frame'[t].decision.ttl>>
       /\ \A t \in Tasks : StoresNothing(t) => cache' = cache
      ]_vars

\* a call in which a DRY_RUN rule denied with a ttl of its own and the client
\* then denied: the entry is the client's
C32_Witness ==
    \E t \in Tasks :
        /\ Returned(t)
        /\ \E i \in Positions(t) : DryRunDenied(t, i) /\ frame[t].results[i].ttl = BotDenyTtl
        /\ frame[t].via = "remote"
        /\ frame[t].decision.conclusion = "DENY"
        /\ frame[t].decision.ttl > 0
        /\ Entry(cache[EngOf(t)], frame[t].req.fp) # <<>>
        /\ Entry(cache[EngOf(t)], frame[t].req.fp)[1] = frame[t].decision.reason
        /\ Entry(cache[EngOf(t)], frame[t].req.fp)[2] <= MaxNow + frame[t].decision.ttl

-----------------------------------------------------------------------------
\* The ttl of a decision taken from the block cache.

\* the expiry of the entry the call of t looks up
ExpiryOf(t) == cache[EngOf(t)].expires[frame[t].req.fp]

\* the call of t has returned the cached block
ReturnedBlock(t) ==
    /\ Returned(t)
    /\ frame[t].via = "cache"
    /\ frame[t].decision.conclusion = "DENY"

\* C33 (as amended): every DENY decision that protect returns from the block
\* cache has ttl equal to the entry's expiry minus the clock at the ttl read;
\* the expiry is strictly after the clock at the cache lookup (get) and the
\* entry does not change between the lookup and the ttl read, so the ttl is
\* strictly greater than 0 when the clock has not reached the expiry by the
\* ttl read, and 0 or less when the clock advances to or past the expiry
\* between the two.
C33_CachedTtl ==
    [][\A t \in Tasks :
        /\ (pc[t] # "blocked" /\ pc'[t] = "blocked") =>
              /\ frame[t].req.fp \in DOMAIN cache[EngOf(t)].expires
              /\ ExpiryOf(t) - now > 0
              /\ Entry(cache'[EngOf(t)], frame[t].req.fp) =
                    Entry(cache[EngOf(t)], frame[t].req.fp)
              /\ now' = now
        /\ (pc[t] = "blocked" /\ pc'[t] = "blocked") =>
              /\ Entry(cache'[EngOf(t)], frame[t].req.fp) =
                    Entry(cache[EngOf(t)], frame[t].req.fp)
              /\ now' >= now
        /\ (pc[t] = "blocked" /\ pc'[t] # "blocked") =>
              /\ pc'[t] = "returned"
              /\ frame'[t].via = "cache"
              /\ frame'[t].decision.conclusion = "DENY"
              /\ frame'[t].decision.ttl = ExpiryOf(t) - now
              /\ frame'[t].decision.ttl > 0 <=> now < ExpiryOf(t)
      ]_vars

\* the clock reached the expiry between the lookup and the ttl read
C33_Witness ==
    \E t \in Tasks : ReturnedBlock(t) /\ frame[t].decision.ttl <= 0

\* C33 (original): every DENY decision that protect returns from the block
\* cache has ttl strictly greater than 0, also when the clock advances between
\* the cache lookup and the ttl read.
C33_Original ==
    \A t \in Tasks : ReturnedBlock(t) => frame[t].decision.ttl > 0

====
